---- MODULE Spec2Model ----
(***************************************************************************)
(* Tag and cluster association engine (internal/storage/tag.go,            *)
(* internal/storage/cluster.go, internal/validator/tag.go, internal/api).  *)
(*                                                                         *)
(* The committed database is the relations tags / entry_tags and           *)
(* clusters / cluster_entries.                                             *)
(* Every SQL statement the Go code issues is one atomic step on it; a      *)
(* handler made of several statements is several steps of one caller, so   *)
(* that other callers can run between them.  Statements issued through a   *)
(* *sql.Tx work on the transaction's private copy (tx) until Commit.       *)
(***************************************************************************)
EXTENDS Integers, Sequences, FiniteSets, TLC

VARIABLES
    tags,        \* table tags: set of [id, user_id, name]
    entry_tags,  \* table entry_tags: set of [entry_id, tag_id, source, created_at]
    nextTagID,   \* the sequence behind tags.id
    now,         \* the database clock (created_at defaults to it)
    tx,          \* the open MergeTags transaction: [active, tags, entry_tags]
    pre,         \* history: the committed relations when the transaction began
    proc,        \* per caller: the running handler, its arguments and locals
    clusters,    \* table clusters: set of [id, user_id, name, created_at, expires_at]
    cluster_entries,  \* table cluster_entries: set of [cluster_id, entry_id, copy]
    ctx          \* the open AddEntriesToCluster transaction: [active, ins]

vars == <<tags, entry_tags, nextTagID, now, tx, pre, proc,
          clusters, cluster_entries, ctx>>

\* The cluster side, which no tag operation touches.
clusterVars == <<clusters, cluster_entries, ctx>>

\* The tag side, which no cluster operation touches.
tagVars == <<tags, entry_tags, nextTagID, tx, pre>>

-----------------------------------------------------------------------------
(* Universe *)

Users == {1, 2}

\* The table entries is owned by another subsystem and never written here.
\* Entries 1 and 2 exist; entry id 3 names no row.
EntryIDs == {1, 2}
EntryArgs == {1, 2, 3}
EntryOwner(e) == IF e = 1 THEN 1 ELSE 2

\* Tag names are character strings; three names, two of them case variants.
NameGo == <<"g", "o">>
NameGO == <<"G", "o">>
NameRs == <<"r", "s">>
NameMl == <<"m", "l">>
Names == {NameGo, NameGO, NameRs}

TagSourceManual == "manual"
TagSourceAuto == "auto"
Sources == {TagSourceManual, TagSourceAuto}

\* Tag ids 1..4 are the seeded tags; larger ids come from the sequence.
\* Callers pass any of them, or 5, which no seeded tag carries.
SeedTagIDs == {1, 2, 3, 4}
TagArgs == {1, 2, 3, 4, 5}
\* The tag ids passed to the association operations: one tag of each user
\* and an id without a tag.
AttachTagArgs == {1, 4, 5}

\* Longest sourceTagIDs / tagIDs / tagNames list a caller passes.
MaxList == 2

\* The database clock runs from its initial value up to MaxNow.
MaxNow == 7

Procs == {1, 2}

NoTag == [id |-> 0, user_id |-> 0, name |-> <<>>]

-----------------------------------------------------------------------------
(* SQL building blocks *)

\* lower(): PostgreSQL case folding, character by character.
LowerChar(c) ==
    CASE c = "G" -> "g"
      [] c = "O" -> "o"
      [] c = "R" -> "r"
      [] c = "S" -> "s"
      [] OTHER -> c

Lower(name) == [k \in 1..Len(name) |-> LowerChar(name[k])]

TagIDsOf(ts) == {t.id : t \in ts}

\* entry_tags.tag_id REFERENCES tags(id) ON DELETE CASCADE
CascadeEntryTags(ets, ts) == {r \in ets : r.tag_id \in TagIDsOf(ts)}

\* A unique index on (user_id, name) that compares names as written.
TagNameConflictCaseSensitive(ts, id, userID, name) ==
    \E t \in ts : t.id # id /\ t.user_id = userID /\ t.name = name

\* UNIQUE (user_id, lower(name)) on tags: would row (id, userID, name) collide?
TagNameConflict(ts, id, userID, name) ==
    \E t \in ts : t.id # id /\ t.user_id = userID /\ Lower(t.name) = Lower(name)

\* SELECT true FROM entries WHERE id=$1 AND user_id=$2
EntryBelongsTo(entryID, userID) ==
    entryID \in EntryIDs /\ EntryOwner(entryID) = userID

\* SELECT ... FROM tags WHERE user_id=$1 AND id=$2
TagByID(ts, userID, tagID) ==
    IF \E t \in ts : t.user_id = userID /\ t.id = tagID
    THEN CHOOSE t \in ts : t.user_id = userID /\ t.id = tagID
    ELSE NoTag

\* GetEntryTags: SELECT ... FROM entry_tags et JOIN tags t ON et.tag_id = t.id
\* WHERE et.entry_id = $1 AND t.user_id = $2 (the rows, without their order)
GetEntryTags(ts, ets, userID, entryID) ==
    {[entry_id |-> r.entry_id, tag_id |-> r.tag_id, source |-> r.source,
      created_at |-> r.created_at, tag_name |-> t.name] :
        <<r, t>> \in {q \in ets \X ts : q[1].tag_id = q[2].id
                        /\ q[1].entry_id = entryID /\ q[2].user_id = userID}}

\* Tags: SELECT ... FROM tags WHERE user_id=$1 (the rows, without their order)
Tags(ts, userID) == {t \in ts : t.user_id = userID}

\* TagsWithCount: tags LEFT JOIN entry_tags, COUNT(et.entry_id) per tag
TagsWithCount(ts, ets, userID) ==
    {[id |-> t.id, user_id |-> t.user_id, name |-> t.name,
      entry_count |-> Cardinality({r \in ets : r.tag_id = t.id})] :
        t \in Tags(ts, userID)}

-----------------------------------------------------------------------------
(* MergeTags *)

\* INSERT INTO entry_tags SELECT et.entry_id, $1, et.source, et.created_at
\* FROM entry_tags et WHERE et.tag_id = $2 ON CONFLICT (entry_id, tag_id) DO NOTHING
CopyRows(ets, toTagID, fromTagID) ==
    {[entry_id |-> r.entry_id, tag_id |-> toTagID,
      source |-> r.source, created_at |-> r.created_at] :
        r \in {x \in ets : x.tag_id = fromTagID
                 /\ ~\E y \in ets : y.entry_id = x.entry_id /\ y.tag_id = toTagID}}

\* The same statement with its two parameters exchanged.
ReassignedRowsSwapped(ets, targetTagID, sourceTagID) ==
    CopyRows(ets, sourceTagID, targetTagID)

\* The INSERT ... SELECT without its ON CONFLICT clause on a table that
\* lets a pair repeat: every row of the source tag is copied.
ReassignedRowsIgnoringConflict(ets, targetTagID, sourceTagID) ==
    {[entry_id |-> r.entry_id, tag_id |-> targetTagID,
      source |-> r.source, created_at |-> r.created_at] :
        r \in {x \in ets : x.tag_id = sourceTagID}}

\* The INSERT ... SELECT with NOW() in place of et.created_at.
ReassignedRowsStampedNow(ets, targetTagID, sourceTagID) ==
    {[r EXCEPT !.created_at = now] : r \in CopyRows(ets, targetTagID, sourceTagID)}

\* tx.Exec(query, targetTagID, sourceTagID): the rows the statement inserts.
ReassignedRows(ets, targetTagID, sourceTagID) ==
    CopyRows(ets, targetTagID, sourceTagID)

\* The INSERT fails when a row it writes references no tag (foreign key).
ReassignFails(ts, ets, targetTagID, sourceTagID) ==
    /\ ReassignedRows(ets, targetTagID, sourceTagID) # {}
    /\ targetTagID \notin TagIDsOf(ts)

\* DELETE FROM tags WHERE id = $1 AND user_id = $2
DeleteTagRows(ts, tagID, userID) ==
    {t \in ts : ~(t.id = tagID /\ t.user_id = userID)}

\* A loop without the guard on the target.
SkipsSourceNever(sourceTagID, targetTagID) == FALSE

\* if sourceID == targetID { continue }
SkipsSource(sourceTagID, targetTagID) == sourceTagID = targetTagID

Idle ==
    [op |-> "none", pc |-> "idle", userID |-> 0, entryID |-> 0, tagID |-> 0,
     clusterID |-> 0, count |-> 0, at |-> 0,
     ids |-> <<>>, names |-> <<>>, name |-> <<>>, source |-> "", i |-> 0,
     tag |-> NoTag, seq |-> 0, before |-> "none", raced |-> FALSE,
     res |-> "none"]

NoTx == [active |-> FALSE, tags |-> {}, entry_tags |-> {}]

NoCtx == [active |-> FALSE, ins |-> {}]

\* The cluster tables of a database that holds no cluster.
NoClusters ==
    /\ clusters = {}
    /\ cluster_entries = {}
    /\ ctx = NoCtx

ListsOver(S) == UNION {[1..n -> S] : n \in 1..MaxList}

\* tx, err := s.db.Begin()
MergeBegin(p) ==
    /\ proc[p].pc = "idle"
    /\ ~tx.active
    /\ \E userID \in Users, targetTagID \in TagArgs,
          sourceTagIDs \in ListsOver(SeedTagIDs), fault \in BOOLEAN :
        LET c == [Idle EXCEPT !.op = "MergeTags", !.pc = "merge_loop",
                              !.userID = userID, !.tagID = targetTagID,
                              !.ids = sourceTagIDs, !.i = 1]
        IN
        IF fault
        THEN /\ proc' = [proc EXCEPT ![p] = [c EXCEPT !.pc = "done", !.res = "fault"]]
             /\ tx' = NoTx
        ELSE /\ proc' = [proc EXCEPT ![p] = c]
             /\ tx' = [active |-> TRUE, tags |-> tags, entry_tags |-> entry_tags]
    /\ pre' = [tags |-> tags, entry_tags |-> entry_tags]
    /\ UNCHANGED <<tags, entry_tags, nextTagID, now, clusterVars>>

Finish(p, result) == [proc EXCEPT ![p].pc = "done", ![p].res = result]

\* The committed relations as one value.
DB == [tags |-> tags, entry_tags |-> entry_tags]

\* A statement run through a session that ignores the transaction
\* (s.db.Exec): its writes are committed at once.
ExecOutsideTx(db, t, out) ==
    [db |-> out, tx |-> [active |-> TRUE, tags |-> out.tags, entry_tags |-> out.entry_tags]]

\* tx.Exec(query, ...): the statement's writes (out) go to the transaction's
\* private copy; the committed relations are not touched before Commit.
TxExec(db, t, out) ==
    [db |-> db, tx |-> [active |-> TRUE, tags |-> out.tags, entry_tags |-> out.entry_tags]]

\* Loop head and the INSERT ... SELECT of one iteration.
MergeReassign(p) ==
    LET c == proc[p]
        src == c.ids[c.i]
        out == [tags |-> tx.tags,
                entry_tags |-> tx.entry_tags
                                 \cup ReassignedRows(tx.entry_tags, c.tagID, src)]
        r == TxExec(DB, tx, out)
    IN
    /\ c.pc = "merge_loop"
    /\ c.i <= Len(c.ids)
    /\ IF SkipsSource(src, c.tagID)
       THEN /\ proc' = [proc EXCEPT ![p].i = c.i + 1]
            /\ UNCHANGED <<tx, tags, entry_tags>>
       ELSE \E fault \in BOOLEAN :
            IF fault \/ ReassignFails(tx.tags, tx.entry_tags, c.tagID, src)
            THEN /\ tx' = NoTx   \* tx.Rollback()
                 /\ proc' = Finish(p, IF fault THEN "fault" ELSE "fk")
                 /\ UNCHANGED <<tags, entry_tags>>
            ELSE /\ tx' = r.tx
                 /\ tags' = r.db.tags
                 /\ entry_tags' = r.db.entry_tags
                 /\ proc' = [proc EXCEPT ![p].pc = "merge_delete"]
    /\ UNCHANGED <<nextTagID, now, pre, clusterVars>>

\* The DELETE FROM tags of one iteration; the cascade removes the source
\* tag's entry_tags.
MergeDelete(p) ==
    LET c == proc[p]
        src == c.ids[c.i]
        ts == DeleteTagRows(tx.tags, src, c.userID)
        out == [tags |-> ts, entry_tags |-> CascadeEntryTags(tx.entry_tags, ts)]
        r == TxExec(DB, tx, out)
    IN
    /\ c.pc = "merge_delete"
    /\ \E fault \in BOOLEAN :
        IF fault
        THEN /\ tx' = NoTx   \* tx.Rollback()
             /\ proc' = Finish(p, "fault")
             /\ UNCHANGED <<tags, entry_tags>>
        ELSE /\ tx' = r.tx
             /\ tags' = r.db.tags
             /\ entry_tags' = r.db.entry_tags
             /\ proc' = [proc EXCEPT ![p].pc = "merge_loop", ![p].i = c.i + 1]
    /\ UNCHANGED <<nextTagID, now, pre, clusterVars>>

\* tx.Commit()
MergeCommit(p) ==
    LET c == proc[p] IN
    /\ c.pc = "merge_loop"
    /\ c.i > Len(c.ids)
    /\ \E fault \in BOOLEAN :
        IF fault
        THEN /\ proc' = Finish(p, "fault")
             /\ UNCHANGED <<tags, entry_tags>>
        ELSE /\ proc' = Finish(p, "ok")
             /\ tags' = tx.tags
             /\ entry_tags' = tx.entry_tags
    /\ tx' = NoTx
    /\ UNCHANGED <<nextTagID, now, pre, clusterVars>>

\* Tags that the open MergeTags transaction has deleted and not committed.
TxDeletedTags == IF tx.active THEN tags \ tx.tags ELSE {}

\* entry_tags rows that the open transaction has inserted and not committed.
TxInsertedRows ==
    IF tx.active
    THEN {r \in tx.entry_tags :
             ~\E s \in entry_tags : s.entry_id = r.entry_id /\ s.tag_id = r.tag_id}
    ELSE {}

\* An INSERT into entry_tags waits for the open transaction to end when that
\* transaction has deleted the referenced tag (foreign key) or has inserted
\* a row for the same pair (unique index).
AttachWaits(entryID, tagID) ==
    \/ tagID \in TagIDsOf(TxDeletedTags)
    \/ \E r \in TxInsertedRows : r.entry_id = entryID /\ r.tag_id = tagID

\* A DELETE FROM tags waits when the open transaction has deleted the same
\* row, or has inserted entry_tags rows that reference it.
RemoveTagWaits(userID, tagID) ==
    \/ \E t \in TxDeletedTags : t.id = tagID /\ t.user_id = userID
    \/ /\ \E t \in tags : t.id = tagID /\ t.user_id = userID
       /\ \E r \in TxInsertedRows : r.tag_id = tagID

\* An INSERT into tags waits when the open transaction has deleted a tag of
\* the same owner with the same folded name (unique index).
CreateTagWaits(userID, name) ==
    \E t \in TxDeletedTags : t.user_id = userID /\ Lower(t.name) = Lower(name)

\* A statement committed by another session while a transaction is open
\* (READ COMMITTED): the transaction's later statements see its writes, ts
\* and ets being what the statement makes of the transaction's own view.
SeenByTx(t, ts, ets) ==
    IF t.active THEN [t EXCEPT !.tags = ts, !.entry_tags = ets] ELSE t

-----------------------------------------------------------------------------
(* Tag store: CreateTag, UpdateTag, GetOrCreateTag and the API flows *)

\* SELECT ... FROM tags WHERE user_id=$1 AND lower(name)=lower($2)
TagByName(ts, userID, name) ==
    IF \E t \in ts : t.user_id = userID /\ Lower(t.name) = Lower(name)
    THEN CHOOSE t \in ts : t.user_id = userID /\ Lower(t.name) = Lower(name)
    ELSE NoTag

\* SELECT true FROM tags WHERE user_id=$1 AND lower(name)=lower($2) LIMIT 1
TagNameExists(ts, userID, name) ==
    \E t \in ts : t.user_id = userID /\ Lower(t.name) = Lower(name)

\* SELECT true FROM tags WHERE user_id=$1 AND id != $2 AND lower(name)=lower($3)
AnotherTagExists(ts, userID, tagID, name) ==
    \E t \in ts : t.user_id = userID /\ t.id # tagID /\ Lower(t.name) = Lower(name)

\* INSERT INTO tags (user_id, name) VALUES ($1, $2) RETURNING ...: the row
\* gets the next sequence value; the unique index rejects a colliding name.
InsertTag(ts, id, userID, name) ==
    LET row == [id |-> id, user_id |-> userID, name |-> name] IN
    IF TagNameConflict(ts, id, userID, name)
    THEN [err |-> "duplicate", tags |-> ts, tag |-> NoTag]
    ELSE [err |-> "ok", tags |-> ts \cup {row}, tag |-> row]

\* CreateTag with the error of the INSERT dropped: it answers a tag anyway.
CreateTagIgnoringError(ts, id, userID, name) ==
    [InsertTag(ts, id, userID, name) EXCEPT
        !.err = "ok", !.tag = [id |-> id, user_id |-> userID, name |-> name]]

\* CreateTag: the INSERT, and its error handed to the caller.
CreateTag(ts, id, userID, name) == InsertTag(ts, id, userID, name)

\* UpdateTag: UPDATE tags SET name=$1 WHERE id=$2 AND user_id=$3; no row
\* matching is no error; the unique index rejects a colliding name.
UpdateTag(ts, tagID, userID, name) ==
    LET hit == {t \in ts : t.id = tagID /\ t.user_id = userID} IN
    IF hit # {} /\ TagNameConflict(ts, tagID, userID, name)
    THEN [err |-> "duplicate", tags |-> ts]
    ELSE [err |-> "ok",
          tags |-> (ts \ hit) \cup {[t EXCEPT !.name = name] : t \in hit}]

\* The store's CreateTag called directly.
CallCreateTag(p) ==
    /\ proc[p].pc = "idle"
    /\ \E userID \in Users, name \in Names :
        LET r == CreateTag(tags, nextTagID, userID, name) IN
        /\ tags' = r.tags
        /\ proc' = [proc EXCEPT ![p] =
                      [Idle EXCEPT !.op = "CreateTag", !.pc = "done",
                                   !.userID = userID, !.name = name,
                                   !.seq = nextTagID, !.tag = r.tag, !.res = r.err]]
    /\ nextTagID' = nextTagID + 1
    /\ UNCHANGED <<entry_tags, now, tx, pre, clusterVars>>

\* The store's UpdateTag called directly with a tag value of the caller's making.
CallUpdateTag(p) ==
    /\ proc[p].pc = "idle"
    /\ \E userID \in Users, tagID \in TagArgs, name \in Names :
        LET r == UpdateTag(tags, tagID, userID, name) IN
        /\ tags' = r.tags
        /\ proc' = [proc EXCEPT ![p] =
                      [Idle EXCEPT !.op = "UpdateTag", !.pc = "done",
                                   !.userID = userID, !.tagID = tagID,
                                   !.name = name, !.res = r.err]]
    /\ UNCHANGED <<entry_tags, nextTagID, now, tx, pre, clusterVars>>

\* A loop that goes on to its next item after an item has failed.
ReturnedSkippingFailed(c, err) ==
    IF c.op = "AddTagsToEntry" /\ c.i < Len(c.ids)
    THEN [c EXCEPT !.pc = "attach_check", !.i = c.i + 1, !.tagID = c.ids[c.i + 1]]
    ELSE IF c.op = "AddTagsToEntryByName" /\ c.i < Len(c.names)
    THEN [c EXCEPT !.pc = "goc_lookup", !.i = c.i + 1, !.name = c.names[c.i + 1]]
    ELSE [c EXCEPT !.pc = "done", !.res = err]

\* The return of AddTagToEntry / AddTagToEntryByName to its caller. The loops
\* of AddTagsToEntry and AddTagsToEntryByName return the first error and
\* otherwise go on to the next item (i is the index of the item in hand); a
\* direct call is over.
Returned(c, err) ==
    IF err = "ok" /\ c.op = "AddTagsToEntry" /\ c.i < Len(c.ids)
    THEN [c EXCEPT !.pc = "attach_check", !.i = c.i + 1, !.tagID = c.ids[c.i + 1]]
    ELSE IF err = "ok" /\ c.op = "AddTagsToEntryByName" /\ c.i < Len(c.names)
    THEN [c EXCEPT !.pc = "goc_lookup", !.i = c.i + 1, !.name = c.names[c.i + 1]]
    ELSE [c EXCEPT !.pc = "done", !.res = err]

\* GetOrCreateTag, first statement: tag, err := s.TagByName(userID, name)
CallGetOrCreateTag(p) ==
    /\ proc[p].pc = "idle"
    /\ \E userID \in Users, name \in Names :
        LET found == TagByName(tags, userID, name)
            c == [Idle EXCEPT !.op = "GetOrCreateTag", !.userID = userID,
                              !.name = name, !.tag = found]
        IN proc' = [proc EXCEPT ![p] =
                       IF found # NoTag
                       THEN [c EXCEPT !.pc = "done", !.res = "ok"]
                       ELSE [c EXCEPT !.pc = "goc_create"]]
    /\ UNCHANGED <<tags, entry_tags, nextTagID, now, tx, pre, clusterVars>>

\* AddTagToEntryByName, first statement: the TagByName of its GetOrCreateTag
CallAddTagToEntryByName(p) ==
    /\ proc[p].pc = "idle"
    /\ \E userID \in Users, entryID \in EntryArgs, name \in Names,
          source \in Sources \cup {""} :
        LET found == TagByName(tags, userID, name)
            c == [Idle EXCEPT !.op = "AddTagToEntryByName", !.userID = userID,
                              !.entryID = entryID, !.name = name,
                              !.source = source, !.tag = found]
        IN proc' = [proc EXCEPT ![p] =
                       IF found # NoTag
                       THEN [c EXCEPT !.pc = "attach_check", !.tagID = found.id]
                       ELSE [c EXCEPT !.pc = "goc_create"]]
    /\ UNCHANGED <<tags, entry_tags, nextTagID, now, tx, pre, clusterVars>>

\* GetOrCreateTag, second statement: return s.CreateTag(userID, ...)
GetOrCreateTagCreate(p) ==
    LET c == proc[p]
        r == CreateTag(tags, nextTagID, c.userID, c.name)
        d == [c EXCEPT !.seq = nextTagID, !.tag = r.tag]
    IN
    /\ c.pc = "goc_create"
    /\ ~CreateTagWaits(c.userID, c.name)
    /\ tags' = r.tags
    /\ tx' = SeenByTx(tx, CreateTag(tx.tags, nextTagID, c.userID, c.name).tags,
                      tx.entry_tags)
    /\ nextTagID' = nextTagID + 1
    /\ proc' = [proc EXCEPT ![p] =
                  IF r.err # "ok" THEN Returned(d, r.err)
                  ELSE IF c.op = "GetOrCreateTag"
                       THEN [d EXCEPT !.pc = "done", !.res = "ok"]
                       ELSE [d EXCEPT !.pc = "attach_check", !.tagID = r.tag.id]]
    /\ UNCHANGED <<entry_tags, now, pre, clusterVars>>

\* HTTP createTag: validator.ValidateTagCreation (TagNameExists)
ApiCreateTagValidate(p) ==
    /\ proc[p].pc = "idle"
    /\ \E userID \in Users, name \in Names :
        LET c == [Idle EXCEPT !.op = "createTag", !.userID = userID, !.name = name]
        IN proc' = [proc EXCEPT ![p] =
                       IF TagNameExists(tags, userID, name)
                       THEN [c EXCEPT !.pc = "done", !.res = "400"]
                       ELSE [c EXCEPT !.pc = "api_create"]]
    /\ UNCHANGED <<tags, entry_tags, nextTagID, now, tx, pre, clusterVars>>

\* HTTP createTag: h.store.CreateTag, then 500 or 201
ApiCreateTagStore(p) ==
    LET c == proc[p]
        r == CreateTag(tags, nextTagID, c.userID, c.name)
    IN
    /\ c.pc = "api_create"
    /\ tags' = r.tags
    /\ nextTagID' = nextTagID + 1
    /\ proc' = [proc EXCEPT ![p] =
                  [c EXCEPT !.pc = "done", !.seq = nextTagID, !.tag = r.tag,
                            !.res = IF r.err # "ok" THEN "500" ELSE "201"]]
    /\ UNCHANGED <<entry_tags, now, tx, pre, clusterVars>>

\* HTTP updateTag: h.store.TagByID, 404 when nil
ApiUpdateTagFetch(p) ==
    /\ proc[p].pc = "idle"
    /\ \E userID \in Users, tagID \in TagArgs, name \in Names \cup {<<>>} :
        LET found == TagByID(tags, userID, tagID)
            c == [Idle EXCEPT !.op = "updateTag", !.userID = userID,
                              !.tagID = tagID, !.name = name, !.tag = found]
        IN proc' = [proc EXCEPT ![p] =
                       IF found = NoTag
                       THEN [c EXCEPT !.pc = "done", !.res = "404"]
                       ELSE [c EXCEPT !.pc = "api_update_validate"]]
    /\ UNCHANGED <<tags, entry_tags, nextTagID, now, tx, pre, clusterVars>>

\* HTTP updateTag: validator.ValidateTagModification (AnotherTagExists when
\* the request carries a name; name <<>> stands for a request without one),
\* then tagModificationRequest.Patch(tag)
ApiUpdateTagValidate(p) ==
    LET c == proc[p] IN
    /\ c.pc = "api_update_validate"
    /\ proc' = [proc EXCEPT ![p] =
                  IF c.name # <<>> /\ AnotherTagExists(tags, c.userID, c.tag.id, c.name)
                  THEN [c EXCEPT !.pc = "done", !.res = "400"]
                  ELSE [c EXCEPT !.pc = "api_update_store",
                                 !.tag = IF c.name # <<>>
                                         THEN [c.tag EXCEPT !.name = c.name]
                                         ELSE c.tag]]
    /\ UNCHANGED <<tags, entry_tags, nextTagID, now, tx, pre, clusterVars>>

\* HTTP updateTag: h.store.UpdateTag(tag), then 500 or 200
ApiUpdateTagStore(p) ==
    LET c == proc[p]
        r == UpdateTag(tags, c.tag.id, c.tag.user_id, c.tag.name)
    IN
    /\ c.pc = "api_update_store"
    /\ tags' = r.tags
    /\ proc' = [proc EXCEPT ![p] =
                  [c EXCEPT !.pc = "done",
                            !.res = IF r.err # "ok" THEN "500" ELSE "200"]]
    /\ UNCHANGED <<entry_tags, nextTagID, now, tx, pre, clusterVars>>

-----------------------------------------------------------------------------
(* Entry-tag associations: AddTagToEntry and its callers *)

\* The same INSERT with source added to the conflict target: a row for
\* the pair with another source does not conflict.
UpsertKeyedOnSource(ets, entryID, tagID, source, t) ==
    IF \E r \in ets : r.entry_id = entryID /\ r.tag_id = tagID /\ r.source = source
    THEN ets
    ELSE ets \cup {[entry_id |-> entryID, tag_id |-> tagID,
                    source |-> source, created_at |-> t]}

\* The same INSERT with ON CONFLICT ... DO NOTHING.
UpsertKeepingExisting(ets, entryID, tagID, source, t) ==
    IF \E r \in ets : r.entry_id = entryID /\ r.tag_id = tagID
    THEN ets
    ELSE ets \cup {[entry_id |-> entryID, tag_id |-> tagID,
                    source |-> source, created_at |-> t]}

\* INSERT INTO entry_tags (entry_id, tag_id, source) VALUES ($1, $2, $3)
\* ON CONFLICT (entry_id, tag_id) DO UPDATE SET source = $3
UpsertEntryTag(ets, entryID, tagID, source, t) ==
    LET hit == {r \in ets : r.entry_id = entryID /\ r.tag_id = tagID} IN
    IF hit # {}
    THEN (ets \ hit) \cup {[r EXCEPT !.source = source] : r \in hit}
    ELSE ets \cup {[entry_id |-> entryID, tag_id |-> tagID,
                    source |-> source, created_at |-> t]}

\* if source == "" { source = model.TagSourceManual }
DefaultSource(source) == IF source = "" THEN TagSourceManual ELSE source

\* The source of the (entry, tag) association, "none" when there is none.
SourceOf(ets, entryID, tagID) ==
    IF \E r \in ets : r.entry_id = entryID /\ r.tag_id = tagID
    THEN (CHOOSE r \in ets : r.entry_id = entryID /\ r.tag_id = tagID).source
    ELSE "none"

\* Another caller is between the ownership checks and the upsert of the
\* same (entry, tag) pair (history, for the race of two attaches).
AttachInFlight(p, entryID, tagID) ==
    \E q \in Procs \ {p} :
        /\ proc[q].pc = "attach_upsert"
        /\ proc[q].entryID = entryID /\ proc[q].tagID = tagID

\* The ownership checks with the SELECT on tags left out.
AttachCheckedEntryOnly(p, c) ==
    IF ~EntryBelongsTo(c.entryID, c.userID)
    THEN Returned(c, "not_found")
    ELSE [c EXCEPT !.pc = "attach_upsert",
                   !.raced = AttachInFlight(p, c.entryID, c.tagID)]

\* AddTagToEntry: the two ownership SELECTs (entries is never written here,
\* so the two reads are one step); c is the caller with its arguments set.
AttachChecked(p, c) ==
    IF ~EntryBelongsTo(c.entryID, c.userID)
    THEN Returned(c, "not_found")
    ELSE IF TagByID(tags, c.userID, c.tagID) = NoTag
         THEN Returned(c, "not_found")
         ELSE [c EXCEPT !.pc = "attach_upsert",
                        !.raced = AttachInFlight(p, c.entryID, c.tagID)]

\* AddTagToEntry called directly.
CallAddTagToEntry(p) ==
    /\ proc[p].pc = "idle"
    /\ \E userID \in Users, entryID \in EntryArgs, tagID \in AttachTagArgs,
          source \in Sources \cup {""} :
        proc' = [proc EXCEPT ![p] =
                    AttachChecked(p, [Idle EXCEPT !.op = "AddTagToEntry",
                                         !.userID = userID, !.entryID = entryID,
                                         !.tagID = tagID, !.source = source])]
    /\ UNCHANGED <<tags, entry_tags, nextTagID, now, tx, pre, clusterVars>>

\* AddTagToEntry reached from AddTagToEntryByName.
AddTagToEntryCheck(p) ==
    /\ proc[p].pc = "attach_check"
    /\ proc' = [proc EXCEPT ![p] = AttachChecked(p, proc[p])]
    /\ UNCHANGED <<tags, entry_tags, nextTagID, now, tx, pre, clusterVars>>

\* An entry_tags table without the foreign key on tag_id.
EntryTagInsertNeverFails(ts, tagID) == FALSE

\* entry_tags.tag_id REFERENCES tags(id): the INSERT of a row for tagID fails
\* when no tag has that id.
EntryTagInsertFails(ts, tagID) == tagID \notin TagIDsOf(ts)

\* AddTagToEntry: the upsert; it fails on the foreign key when the tag is gone
AddTagToEntryUpsert(p) ==
    LET c == proc[p] IN
    /\ c.pc = "attach_upsert"
    /\ ~AttachWaits(c.entryID, c.tagID)
    /\ IF EntryTagInsertFails(tags, c.tagID)
       THEN /\ proc' = [proc EXCEPT ![p] = Returned(c, "fk")]
            /\ UNCHANGED <<entry_tags, tx>>
       ELSE /\ entry_tags' = UpsertEntryTag(entry_tags, c.entryID, c.tagID,
                                            DefaultSource(c.source), now)
            /\ tx' = SeenByTx(tx, tx.tags,
                              UpsertEntryTag(tx.entry_tags, c.entryID, c.tagID,
                                             DefaultSource(c.source), now))
            /\ proc' = [proc EXCEPT ![p] =
                          Returned([c EXCEPT !.before =
                                       SourceOf(entry_tags, c.entryID, c.tagID)],
                                   "ok")]
    /\ UNCHANGED <<tags, nextTagID, now, pre, clusterVars>>

\* AddTagToEntry: the INSERT fails in the database (err != nil after Exec)
AddTagToEntryFault(p) ==
    /\ proc[p].pc = "attach_upsert"
    /\ proc' = [proc EXCEPT ![p] = Returned(proc[p], "fault")]
    /\ UNCHANGED <<tags, entry_tags, nextTagID, now, tx, pre, clusterVars>>

\* AddTagsToEntry: the loop over tagIDs, entered with its first AddTagToEntry
CallAddTagsToEntry(p) ==
    /\ proc[p].pc = "idle"
    /\ \E userID \in Users, entryID \in EntryArgs,
          tagIDs \in ListsOver(AttachTagArgs) \cup {<<>>},
          source \in Sources \cup {""} :
        LET c == [Idle EXCEPT !.op = "AddTagsToEntry", !.userID = userID,
                              !.entryID = entryID, !.ids = tagIDs,
                              !.source = source]
        IN proc' = [proc EXCEPT ![p] =
                       IF tagIDs = <<>>
                       THEN [c EXCEPT !.pc = "done", !.res = "ok"]
                       ELSE AttachChecked(p, [c EXCEPT !.i = 1, !.tagID = tagIDs[1]])]
    /\ pre' = [tags |-> tags, entry_tags |-> entry_tags]
    /\ UNCHANGED <<tags, entry_tags, nextTagID, now, tx, clusterVars>>

\* AddTagsToEntryByName: the loop over tagNames, entered with the TagByName
\* of the first name's GetOrCreateTag
CallAddTagsToEntryByName(p) ==
    /\ proc[p].pc = "idle"
    /\ \E userID \in Users, entryID \in EntryArgs,
          tagNames \in ListsOver(Names) \cup {<<>>},
          source \in Sources \cup {""} :
        LET c == [Idle EXCEPT !.op = "AddTagsToEntryByName", !.userID = userID,
                              !.entryID = entryID, !.names = tagNames,
                              !.source = source]
        IN proc' = [proc EXCEPT ![p] =
                       IF tagNames = <<>>
                       THEN [c EXCEPT !.pc = "done", !.res = "ok"]
                       ELSE [c EXCEPT !.pc = "goc_lookup", !.i = 1,
                                      !.name = tagNames[1]]]
    /\ pre' = [tags |-> tags, entry_tags |-> entry_tags]
    /\ UNCHANGED <<tags, entry_tags, nextTagID, now, tx, clusterVars>>

\* AddTagToEntryByName of a loop item: the TagByName of its GetOrCreateTag
GetOrCreateTagLookup(p) ==
    LET c == proc[p]
        found == TagByName(tags, c.userID, c.name)
    IN
    /\ c.pc = "goc_lookup"
    /\ proc' = [proc EXCEPT ![p] =
                  IF found # NoTag
                  THEN [c EXCEPT !.pc = "attach_check", !.tag = found,
                                 !.tagID = found.id]
                  ELSE [c EXCEPT !.pc = "goc_create", !.tag = found]]
    /\ UNCHANGED <<tags, entry_tags, nextTagID, now, tx, pre, clusterVars>>

\* RemoveTag with a DELETE that does not compare user_id.
RemoveTagAnyOwner(ts, ets, userID, tagID) ==
    LET left == {t \in ts : t.id # tagID} IN
    IF left = ts
    THEN [err |-> "not_found", tags |-> ts, entry_tags |-> ets]
    ELSE [err |-> "ok", tags |-> left, entry_tags |-> CascadeEntryTags(ets, left)]

\* RemoveTag: DELETE FROM tags WHERE id=$1 AND user_id=$2 (the rows of
\* entry_tags go with the tag); when RowsAffected is 0 the error
\* "no tag has been removed" (not_found here)
RemoveTag(ts, ets, userID, tagID) ==
    LET left == DeleteTagRows(ts, tagID, userID) IN
    IF left = ts
    THEN [err |-> "not_found", tags |-> ts, entry_tags |-> ets]
    ELSE [err |-> "ok", tags |-> left, entry_tags |-> CascadeEntryTags(ets, left)]

\* The store's RemoveTag called directly.
CallRemoveTag(p) ==
    /\ proc[p].pc = "idle"
    /\ \E userID \in Users, tagID \in AttachTagArgs :
        LET r == RemoveTag(tags, entry_tags, userID, tagID)
            v == RemoveTag(tx.tags, tx.entry_tags, userID, tagID)
        IN
        /\ ~RemoveTagWaits(userID, tagID)
        /\ tags' = r.tags
        /\ entry_tags' = r.entry_tags
        /\ tx' = SeenByTx(tx, v.tags, v.entry_tags)
        /\ proc' = [proc EXCEPT ![p] =
                      [Idle EXCEPT !.op = "RemoveTag", !.pc = "done",
                                   !.userID = userID, !.tagID = tagID,
                                   !.tag = TagByID(tags, userID, tagID),
                                   !.res = r.err]]
    /\ UNCHANGED <<nextTagID, now, pre, clusterVars>>

\* SELECT true FROM tags WHERE user_id=$1 AND id=$2 LIMIT 1
TagIDExists(ts, userID, tagID) ==
    \E t \in ts : t.user_id = userID /\ t.id = tagID

\* HTTP removeTag: h.store.TagIDExists, 404 when false
ApiRemoveTagCheck(p) ==
    /\ proc[p].pc = "idle"
    /\ \E userID \in Users, tagID \in AttachTagArgs :
        LET c == [Idle EXCEPT !.op = "removeTag", !.userID = userID,
                              !.tagID = tagID,
                              !.tag = TagByID(tags, userID, tagID)]
        IN proc' = [proc EXCEPT ![p] =
                       IF ~TagIDExists(tags, userID, tagID)
                       THEN [c EXCEPT !.pc = "done", !.res = "404"]
                       ELSE [c EXCEPT !.pc = "api_remove"]]
    /\ UNCHANGED <<tags, entry_tags, nextTagID, now, tx, pre, clusterVars>>

\* HTTP removeTag: h.store.RemoveTag, then 500 on its error or 204
ApiRemoveTagStore(p) ==
    LET c == proc[p]
        r == RemoveTag(tags, entry_tags, c.userID, c.tagID)
    IN
    /\ c.pc = "api_remove"
    /\ tags' = r.tags
    /\ entry_tags' = r.entry_tags
    /\ proc' = [proc EXCEPT ![p] =
                  [c EXCEPT !.pc = "done",
                            !.res = IF r.err # "ok" THEN "500" ELSE "204"]]
    /\ UNCHANGED <<nextTagID, now, tx, pre, clusterVars>>

\* A DELETE that reports an error when it removed no row.
DeleteEntryTagStrict(ets, entryID, tagID) ==
    [err |-> IF \E r \in ets : r.entry_id = entryID /\ r.tag_id = tagID
             THEN "ok" ELSE "not_found",
     entry_tags |-> {r \in ets : ~(r.entry_id = entryID /\ r.tag_id = tagID)}]

\* DELETE FROM entry_tags WHERE entry_id=$1 AND tag_id=$2; the number of
\* rows removed is not looked at.
DeleteEntryTag(ets, entryID, tagID) ==
    [err |-> "ok",
     entry_tags |-> {r \in ets : ~(r.entry_id = entryID /\ r.tag_id = tagID)}]

\* RemoveTagFromEntry: the entry check, then the DELETE
CallRemoveTagFromEntry(p) ==
    /\ proc[p].pc = "idle"
    /\ \E userID \in Users, entryID \in EntryArgs, tagID \in AttachTagArgs :
        LET c == [Idle EXCEPT !.op = "RemoveTagFromEntry", !.pc = "done",
                              !.userID = userID, !.entryID = entryID, !.tagID = tagID]
        IN
        IF ~EntryBelongsTo(entryID, userID)
        THEN /\ proc' = [proc EXCEPT ![p] = [c EXCEPT !.res = "not_found"]]
             /\ UNCHANGED entry_tags
        ELSE LET d == DeleteEntryTag(entry_tags, entryID, tagID) IN
             /\ proc' = [proc EXCEPT ![p] =
                           [c EXCEPT !.res = d.err,
                                     !.before = SourceOf(entry_tags, entryID, tagID)]]
             /\ entry_tags' = d.entry_tags
    /\ UNCHANGED <<tags, nextTagID, now, tx, pre, clusterVars>>

\* A confirmation written as an upsert: it makes the association when the
\* pair has none.
ConfirmRowsUpserting(ets, entryID, tagID) ==
    UpsertEntryTag(ets, entryID, tagID, TagSourceManual, now)

\* UPDATE entry_tags SET source='manual' WHERE entry_id=$2 AND tag_id=$3
ConfirmRows(ets, entryID, tagID) ==
    {IF r.entry_id = entryID /\ r.tag_id = tagID
     THEN [r EXCEPT !.source = TagSourceManual]
     ELSE r : r \in ets}

\* ConfirmAutoTag: the entry check, then the UPDATE
CallConfirmAutoTag(p) ==
    /\ proc[p].pc = "idle"
    /\ \E userID \in Users, entryID \in EntryArgs, tagID \in AttachTagArgs :
        LET c == [Idle EXCEPT !.op = "ConfirmAutoTag", !.pc = "done",
                              !.userID = userID, !.entryID = entryID, !.tagID = tagID]
        IN
        IF ~EntryBelongsTo(entryID, userID)
        THEN /\ proc' = [proc EXCEPT ![p] = [c EXCEPT !.res = "not_found"]]
             /\ UNCHANGED entry_tags
        ELSE /\ proc' = [proc EXCEPT ![p] =
                           [c EXCEPT !.res = "ok",
                                     !.before = SourceOf(entry_tags, entryID, tagID)]]
             /\ entry_tags' = ConfirmRows(entry_tags, entryID, tagID)
    /\ UNCHANGED <<tags, nextTagID, now, tx, pre, clusterVars>>

\* The DELETE without its subquery on the tags of the user.
RemoveAutoRowsAnyOwner(ts, ets, userID, entryID) ==
    {r \in ets : ~(r.entry_id = entryID /\ r.source = TagSourceAuto)}

\* DELETE FROM entry_tags WHERE entry_id = $1 AND source = 'auto'
\* AND tag_id IN (SELECT id FROM tags WHERE user_id = $3): the rows that stay
RemoveAutoRows(ts, ets, userID, entryID) ==
    {r \in ets : ~(/\ r.entry_id = entryID
                    /\ r.source = TagSourceAuto
                    /\ r.tag_id \in TagIDsOf(Tags(ts, userID)))}

\* RemoveAutoTagsFromEntry: the DELETE alone, with no check of the entry
CallRemoveAutoTagsFromEntry(p) ==
    /\ proc[p].pc = "idle"
    /\ \E userID \in Users, entryID \in EntryArgs :
        /\ proc' = [proc EXCEPT ![p] =
                      [Idle EXCEPT !.op = "RemoveAutoTagsFromEntry", !.pc = "done",
                                   !.userID = userID, !.entryID = entryID,
                                   !.before =
                                      IF RemoveAutoRows(tags, entry_tags, userID,
                                                        entryID) = entry_tags
                                      THEN "none" ELSE TagSourceAuto,
                                   !.res = "ok"]]
        /\ entry_tags' = RemoveAutoRows(tags, entry_tags, userID, entryID)
    /\ UNCHANGED <<tags, nextTagID, now, tx, pre, clusterVars>>

-----------------------------------------------------------------------------
(* Clusters and their entries *)

ClusterArgs == {1, 2, 3}

\* expires_at IS NULL
Null == 0

ClusterIDsOf(cs) == {c.id : c \in cs}

\* The rows of cluster_entries of one (cluster, entry) pair. A row carries
\* the number of its copy, so that a table without the unique constraint
\* could hold the pair several times.
MembershipRows(ces, clusterID, entryID) ==
    {r \in ces : r.cluster_id = clusterID /\ r.entry_id = entryID}

\* (SELECT COUNT(*) FROM cluster_entries WHERE cluster_id = c.id)
EntryCount(ces, clusterID) == Cardinality({r \in ces : r.cluster_id = clusterID})

\* The INSERT without an ON CONFLICT clause on a table that lets a pair repeat.
InsertClusterEntryAlways(ces, clusterID, entryID) ==
    ces \cup {[cluster_id |-> clusterID, entry_id |-> entryID,
               copy |-> Cardinality(MembershipRows(ces, clusterID, entryID)) + 1]}

\* INSERT INTO cluster_entries (cluster_id, entry_id) VALUES ($1, $2)
\* ON CONFLICT (cluster_id, entry_id) DO NOTHING
InsertClusterEntry(ces, clusterID, entryID) ==
    IF MembershipRows(ces, clusterID, entryID) # {}
    THEN ces
    ELSE ces \cup {[cluster_id |-> clusterID, entry_id |-> entryID, copy |-> 1]}

\* The INSERT fails when the row references no cluster or no entry
\* (the foreign keys of cluster_entries).
ClusterEntryInsertFails(cs, clusterID, entryID) ==
    clusterID \notin ClusterIDsOf(cs) \/ entryID \notin EntryIDs

\* An INSERT of a pair that an open transaction has inserted and not yet
\* committed waits on the unique index until that transaction ends.
InsertWaits(clusterID, entryID) ==
    ctx.active /\ MembershipRows(ctx.ins, clusterID, entryID) # {}

\* A DELETE of a cluster that a row inserted by an open transaction
\* references waits on the foreign key until that transaction ends.
DeleteClusterWaits(clusterIDs) ==
    ctx.active /\ \E r \in ctx.ins : r.cluster_id \in clusterIDs

\* AddEntryToCluster: the one INSERT, through s.db
CallAddEntryToCluster(p) ==
    /\ proc[p].pc = "idle"
    /\ \E clusterID \in ClusterArgs, entryID \in EntryArgs :
        LET c == [Idle EXCEPT !.op = "AddEntryToCluster", !.pc = "done",
                              !.clusterID = clusterID, !.entryID = entryID]
        IN
        /\ ~InsertWaits(clusterID, entryID)
        /\ IF ClusterEntryInsertFails(clusters, clusterID, entryID)
           THEN /\ proc' = [proc EXCEPT ![p] = [c EXCEPT !.res = "fk"]]
                /\ UNCHANGED cluster_entries
           ELSE /\ proc' = [proc EXCEPT ![p] = [c EXCEPT !.res = "ok"]]
                /\ cluster_entries' =
                      InsertClusterEntry(cluster_entries, clusterID, entryID)
    /\ UNCHANGED <<clusters, ctx, now, tagVars>>

\* AddEntriesToCluster: nil for the empty list; else Begin and Prepare
CallAddEntriesToCluster(p) ==
    /\ proc[p].pc = "idle"
    /\ ~ctx.active
    /\ \E clusterID \in ClusterArgs, entryIDs \in ListsOver(EntryArgs) \cup {<<>>} :
        LET c == [Idle EXCEPT !.op = "AddEntriesToCluster",
                              !.clusterID = clusterID, !.ids = entryIDs]
        IN
        IF entryIDs = <<>>
        THEN /\ proc' = [proc EXCEPT ![p] = [c EXCEPT !.pc = "done", !.res = "ok"]]
             /\ UNCHANGED ctx
        ELSE /\ proc' = [proc EXCEPT ![p] = [c EXCEPT !.pc = "addmany_loop", !.i = 1]]
             /\ ctx' = [active |-> TRUE, ins |-> {}]
    /\ UNCHANGED <<clusters, cluster_entries, now, tagVars>>

\* The statement prepared on s.db instead of tx: its row is committed at once.
StmtExecOutsideTx(ces, t, clusterID, entryID) ==
    [cluster_entries |-> InsertClusterEntry(ces, clusterID, entryID), ctx |-> t]

\* stmt.Exec of the statement prepared by tx.Prepare: the INSERT sees the
\* committed rows and the transaction's own, and its row stays in the
\* transaction until Commit.
StmtExec(ces, t, clusterID, entryID) ==
    [cluster_entries |-> ces,
     ctx |-> [t EXCEPT !.ins =
                 InsertClusterEntry(ces \cup t.ins, clusterID, entryID) \ ces]]

\* AddEntriesToCluster: stmt.Exec(clusterID, entryID) of one iteration, inside
\* the transaction; on an error tx.Rollback() and return
AddEntriesToClusterExec(p) ==
    LET c == proc[p]
        entryID == c.ids[c.i]
        r == StmtExec(cluster_entries, ctx, c.clusterID, entryID)
    IN
    /\ c.pc = "addmany_loop"
    /\ c.i <= Len(c.ids)
    /\ IF ClusterEntryInsertFails(clusters, c.clusterID, entryID)
       THEN /\ ctx' = NoCtx
            /\ proc' = [proc EXCEPT ![p] = [c EXCEPT !.pc = "done", !.res = "fk"]]
            /\ UNCHANGED cluster_entries
       ELSE /\ ctx' = r.ctx
            /\ cluster_entries' = r.cluster_entries
            /\ proc' = [proc EXCEPT ![p].i = c.i + 1]
    /\ UNCHANGED <<clusters, now, tagVars>>

\* AddEntriesToCluster: stmt.Exec or tx.Commit fails in the database; the
\* transaction is rolled back and the error returned
AddEntriesToClusterFault(p) ==
    /\ proc[p].pc = "addmany_loop"
    /\ ctx' = NoCtx
    /\ proc' = [proc EXCEPT ![p] = [proc[p] EXCEPT !.pc = "done", !.res = "fault"]]
    /\ UNCHANGED <<clusters, cluster_entries, now, tagVars>>

\* AddEntriesToCluster: tx.Commit() after the loop
AddEntriesToClusterCommit(p) ==
    LET c == proc[p] IN
    /\ c.pc = "addmany_loop"
    /\ c.i > Len(c.ids)
    /\ cluster_entries' = cluster_entries \cup ctx.ins
    /\ ctx' = NoCtx
    /\ proc' = [proc EXCEPT ![p] = [c EXCEPT !.pc = "done", !.res = "ok"]]
    /\ UNCHANGED <<clusters, now, tagVars>>

\* DELETE FROM cluster_entries WHERE cluster_id = $1 AND entry_id = $2
DeleteClusterEntry(ces, clusterID, entryID) ==
    {r \in ces : ~(r.cluster_id = clusterID /\ r.entry_id = entryID)}

\* RemoveEntryFromCluster: the one DELETE; it sees committed rows only
CallRemoveEntryFromCluster(p) ==
    /\ proc[p].pc = "idle"
    /\ \E clusterID \in ClusterArgs, entryID \in EntryArgs :
        /\ cluster_entries' = DeleteClusterEntry(cluster_entries, clusterID, entryID)
        /\ proc' = [proc EXCEPT ![p] =
                      [Idle EXCEPT !.op = "RemoveEntryFromCluster", !.pc = "done",
                                   !.clusterID = clusterID, !.entryID = entryID,
                                   !.res = "ok"]]
    /\ UNCHANGED <<clusters, ctx, now, tagVars>>

\* cluster_entries.cluster_id REFERENCES clusters(id) ON DELETE CASCADE
CascadeClusterEntries(ces, cs) == {r \in ces : r.cluster_id \in ClusterIDsOf(cs)}

\* RemoveCluster: DELETE FROM clusters WHERE id = $1 AND user_id = $2 (the
\* rows of cluster_entries go with the cluster); "cluster not found" when
\* RowsAffected is 0
RemoveCluster(cs, ces, userID, clusterID) ==
    LET left == {c \in cs : ~(c.id = clusterID /\ c.user_id = userID)} IN
    IF left = cs
    THEN [err |-> "not_found", clusters |-> cs, cluster_entries |-> ces]
    ELSE [err |-> "ok", clusters |-> left,
          cluster_entries |-> CascadeClusterEntries(ces, left)]

\* The store's RemoveCluster called directly.
CallRemoveCluster(p) ==
    /\ proc[p].pc = "idle"
    /\ \E userID \in Users, clusterID \in ClusterArgs :
        LET r == RemoveCluster(clusters, cluster_entries, userID, clusterID) IN
        /\ ~DeleteClusterWaits(ClusterIDsOf(clusters \ r.clusters))
        /\ clusters' = r.clusters
        /\ cluster_entries' = r.cluster_entries
        /\ proc' = [proc EXCEPT ![p] =
                      [Idle EXCEPT !.op = "RemoveCluster", !.pc = "done",
                                   !.userID = userID, !.clusterID = clusterID,
                                   !.res = r.err]]
    /\ UNCHANGED <<ctx, now, tagVars>>

NoCluster == [id |-> 0, user_id |-> 0, name |-> <<>>, created_at |-> 0,
              expires_at |-> Null]

\* ClusterByID: SELECT ... FROM clusters WHERE user_id=$1 AND id=$2
ClusterByID(cs, userID, clusterID) ==
    IF \E c \in cs : c.id = clusterID /\ c.user_id = userID
    THEN CHOOSE c \in cs : c.id = clusterID /\ c.user_id = userID
    ELSE NoCluster

\* The filter with >= in place of >.
NotExpiredInclusive(c, t) == c.expires_at = Null \/ c.expires_at >= t

\* (c.expires_at IS NULL OR c.expires_at > NOW())
NotExpired(c, t) == c.expires_at = Null \/ c.expires_at > t

\* Clusters: the clusters of the user that pass the filter, each with the
\* COUNT(*) of its cluster_entries rows
Clusters(cs, ces, userID, t) ==
    {[id |-> c.id, user_id |-> c.user_id, name |-> c.name,
      created_at |-> c.created_at, expires_at |-> c.expires_at,
      entry_count |-> EntryCount(ces, c.id)] :
        c \in {x \in cs : x.user_id = userID /\ NotExpired(x, t)}}

\* GetEntryClusters: clusters JOIN cluster_entries WHERE ce.entry_id = $1
\* AND c.user_id = $2 AND (the same filter)
GetEntryClusters(cs, ces, userID, entryID, t) ==
    {c \in cs : /\ c.user_id = userID
                /\ NotExpired(c, t)
                /\ MembershipRows(ces, c.id, entryID) # {}}

\* GetClusterEntries: entries JOIN cluster_entries WHERE ce.cluster_id = $1
\* AND e.user_id = $2 (one result row per joined cluster_entries row)
GetClusterEntries(ces, userID, clusterID) ==
    {r \in ces : /\ r.cluster_id = clusterID
                 /\ r.entry_id \in EntryIDs
                 /\ EntryOwner(r.entry_id) = userID}

\* GetClusterWithEntries: ClusterByID, nil when there is none, else
\* GetClusterEntries and count := len(entries)
GetClusterWithEntries(cs, ces, userID, clusterID) ==
    LET c == ClusterByID(cs, userID, clusterID) IN
    IF c = NoCluster
    THEN [cluster |-> NoCluster, entry_count |-> 0]
    ELSE [cluster |-> c,
          entry_count |-> Cardinality(GetClusterEntries(ces, userID, clusterID))]

\* The DELETE with <= in place of <.
RemoveExpiredClustersInclusive(cs, ces, t) ==
    LET left == {c \in cs : ~(c.expires_at # Null /\ c.expires_at <= t)} IN
    [count |-> Cardinality(cs \ left), clusters |-> left,
     cluster_entries |-> CascadeClusterEntries(ces, left)]

\* RemoveExpiredClusters: DELETE FROM clusters WHERE expires_at IS NOT NULL
\* AND expires_at < NOW(), returning RowsAffected
RemoveExpiredClusters(cs, ces, t) ==
    LET left == {c \in cs : ~(c.expires_at # Null /\ c.expires_at < t)} IN
    [count |-> Cardinality(cs \ left), clusters |-> left,
     cluster_entries |-> CascadeClusterEntries(ces, left)]

\* The store's RemoveExpiredClusters called by the scheduler.
CallRemoveExpiredClusters(p) ==
    LET r == RemoveExpiredClusters(clusters, cluster_entries, now) IN
    /\ proc[p].pc = "idle"
    /\ ~DeleteClusterWaits(ClusterIDsOf(clusters \ r.clusters))
    /\ clusters' = r.clusters
    /\ cluster_entries' = r.cluster_entries
    /\ proc' = [proc EXCEPT ![p] =
                  [Idle EXCEPT !.op = "RemoveExpiredClusters", !.pc = "done",
                               !.count = r.count, !.at = now, !.res = "ok"]]
    /\ UNCHANGED <<ctx, now, tagVars>>

\* NOW() advances.
Tick ==
    /\ now < MaxNow
    /\ now' = now + 1
    /\ UNCHANGED <<proc, clusterVars, tagVars>>

-----------------------------------------------------------------------------
(* Initial states *)

SeedTags ==
    {[id |-> 1, user_id |-> 1, name |-> NameGo],
     [id |-> 2, user_id |-> 1, name |-> NameRs],
     [id |-> 3, user_id |-> 1, name |-> NameMl],
     [id |-> 4, user_id |-> 2, name |-> NameGo]}

\* The (entry, tag) pairs a user could have attached: same owner on both sides.
SeedPairs ==
    {pr \in EntryIDs \X SeedTagIDs :
        \E t \in SeedTags : t.id = pr[2] /\ t.user_id = EntryOwner(pr[1])}

\* Seeded associations: any subset of SeedPairs, each manual or auto, the
\* row's created_at being the (earlier) time its tag was attached.
SeedEntryTags ==
    {{[entry_id |-> pr[1], tag_id |-> pr[2], source |-> f[pr], created_at |-> pr[2]] :
          pr \in {q \in SeedPairs : f[q] # "absent"}} :
       f \in [SeedPairs -> Sources \cup {"absent"}]}

InitCommon ==
    /\ tags = SeedTags
    /\ nextTagID = 5
    /\ now = 5
    /\ tx = NoTx
    /\ pre = [tags |-> {}, entry_tags |-> {}]
    /\ proc = [p \in Procs |-> Idle]
    /\ NoClusters

InitMerge ==
    /\ InitCommon
    /\ entry_tags \in SeedEntryTags

NextMerge ==
    \/ MergeBegin(1)
    \/ MergeReassign(1)
    \/ MergeDelete(1)
    \/ MergeCommit(1)

SpecMerge == InitMerge /\ [][NextMerge]_vars

\* Tag naming: two callers, one call each, on a store where each user has
\* one tag and no association.
NameSeedTags ==
    {[id |-> 1, user_id |-> 1, name |-> NameRs],
     [id |-> 4, user_id |-> 2, name |-> NameGo]}

InitNames ==
    /\ tags = NameSeedTags
    /\ entry_tags = {}
    /\ nextTagID = 5
    /\ now = 5
    /\ tx = NoTx
    /\ pre = [tags |-> {}, entry_tags |-> {}]
    /\ proc = [p \in Procs |-> Idle]
    /\ NoClusters

NextNames ==
    \E p \in Procs :
        \/ CallCreateTag(p)
        \/ CallUpdateTag(p)
        \/ CallGetOrCreateTag(p)
        \/ CallAddTagToEntryByName(p)
        \/ GetOrCreateTagCreate(p)
        \/ AddTagToEntryCheck(p)
        \/ AddTagToEntryUpsert(p)
        \/ ApiCreateTagValidate(p)
        \/ ApiCreateTagStore(p)
        \/ ApiUpdateTagFetch(p)
        \/ ApiUpdateTagValidate(p)
        \/ ApiUpdateTagStore(p)

SpecNames == InitNames /\ [][NextNames]_vars

\* Associations: two callers, one call each, on a store where each user has
\* one tag (ids 1 and 4) and any association an owner could have made.
AttachSeedTags == {t \in SeedTags : t.id \in AttachTagArgs}

InitAttach ==
    /\ tags = AttachSeedTags
    /\ entry_tags \in {CascadeEntryTags(ets, AttachSeedTags) : ets \in SeedEntryTags}
    /\ nextTagID = 5
    /\ now = 5
    /\ tx = NoTx
    /\ pre = [tags |-> {}, entry_tags |-> {}]
    /\ proc = [p \in Procs |-> Idle]
    /\ NoClusters

NextAttach ==
    \E p \in Procs :
        \/ CallAddTagToEntry(p)
        \/ AddTagToEntryUpsert(p)
        \/ CallRemoveTagFromEntry(p)
        \/ CallConfirmAutoTag(p)
        \/ CallRemoveAutoTagsFromEntry(p)
        \/ CallRemoveTag(p)

SpecAttach == InitAttach /\ [][NextAttach]_vars

\* Tag deletion over HTTP: two requests, on the store of InitAttach.
NextApiRemove ==
    \E p \in Procs :
        \/ ApiRemoveTagCheck(p)
        \/ ApiRemoveTagStore(p)

SpecApiRemove == InitAttach /\ [][NextApiRemove]_vars

\* One caller runs one of the two list operations; its INSERTs may fail.
NextBatch ==
    \/ CallAddTagsToEntry(1)
    \/ CallAddTagsToEntryByName(1)
    \/ GetOrCreateTagLookup(1)
    \/ GetOrCreateTagCreate(1)
    \/ AddTagToEntryCheck(1)
    \/ AddTagToEntryUpsert(1)
    \/ AddTagToEntryFault(1)

SpecBatch == InitAttach /\ [][NextBatch]_vars

\* Cluster 1 of user 1 never expires; cluster 2 of user 2 expires later.
SeedClusters ==
    {[id |-> 1, user_id |-> 1, name |-> NameGo, created_at |-> 1, expires_at |-> Null],
     [id |-> 2, user_id |-> 2, name |-> NameRs, created_at |-> 2, expires_at |-> 9]}

InitCluster ==
    /\ tags = {}
    /\ entry_tags = {}
    /\ nextTagID = 5
    /\ now = 5
    /\ tx = NoTx
    /\ pre = [tags |-> {}, entry_tags |-> {}]
    /\ proc = [p \in Procs |-> Idle]
    /\ clusters = SeedClusters
    /\ cluster_entries \in
          {{}, {[cluster_id |-> 1, entry_id |-> 1, copy |-> 1]}}
    /\ ctx = NoCtx

\* No caller is inside a call.
Quiet == \A q \in Procs : proc[q].pc \in {"idle", "done"}

\* Two calls of the membership operations, one after the other.
NextCluster ==
    \E p \in Procs :
        \/ Quiet /\ CallAddEntryToCluster(p)
        \/ Quiet /\ CallAddEntriesToCluster(p)
        \/ AddEntriesToClusterExec(p)
        \/ AddEntriesToClusterCommit(p)

SpecCluster == InitCluster /\ [][NextCluster]_vars

\* One AddEntriesToCluster, whose statements may fail, while another caller
\* runs one of the single-statement operations.
NextAddMany ==
    \/ CallAddEntriesToCluster(1)
    \/ AddEntriesToClusterExec(1)
    \/ AddEntriesToClusterFault(1)
    \/ AddEntriesToClusterCommit(1)
    \/ CallAddEntryToCluster(2)
    \/ CallRemoveEntryFromCluster(2)
    \/ CallRemoveCluster(2)

SpecAddMany == InitCluster /\ [][NextAddMany]_vars

\* Cluster 1 never expires, cluster 2 expires at the initial time, cluster 3
\* one tick later; clusters 2 and 3 have different owners.
SweepSeedClusters ==
    {[id |-> 1, user_id |-> 1, name |-> NameGo, created_at |-> 1, expires_at |-> Null],
     [id |-> 2, user_id |-> 1, name |-> NameRs, created_at |-> 2, expires_at |-> 5],
     [id |-> 3, user_id |-> 2, name |-> NameGo, created_at |-> 3, expires_at |-> 6]}

\* Any of the seeded clusters exist, each with or without one entry of its
\* owner.
InitSweep ==
    /\ tags = {}
    /\ entry_tags = {}
    /\ nextTagID = 5
    /\ now = 5
    /\ tx = NoTx
    /\ pre = [tags |-> {}, entry_tags |-> {}]
    /\ proc = [p \in Procs |-> Idle]
    /\ clusters \in SUBSET SweepSeedClusters
    /\ cluster_entries \in
          {{[cluster_id |-> c.id, entry_id |-> c.user_id, copy |-> 1] : c \in cs} :
              cs \in SUBSET clusters}
    /\ ctx = NoCtx

NextSweep ==
    \/ \E p \in Procs : CallRemoveExpiredClusters(p)
    \/ \E p \in Procs : CallRemoveCluster(p)
    \/ Tick

SpecSweep == InitSweep /\ [][NextSweep]_vars

\* References: the seeded tags with three associations, the clusters of
\* SweepSeedClusters with one entry each, at a time when cluster 2 is past
\* its expiry. Caller 1 may run a MergeTags of one or two sources as user 1
\* (the owner of three tags) or remove clusters, caller 2 may add entries to
\* clusters, and either may attach (with source auto) or remove a tag.
RefSeedEntryTags ==
    {[entry_id |-> 1, tag_id |-> 1, source |-> TagSourceManual, created_at |-> 1],
     [entry_id |-> 1, tag_id |-> 2, source |-> TagSourceAuto, created_at |-> 2],
     [entry_id |-> 2, tag_id |-> 4, source |-> TagSourceManual, created_at |-> 4]}

InitRefs ==
    /\ tags = SeedTags
    /\ entry_tags = RefSeedEntryTags
    /\ nextTagID = 5
    /\ now = 6
    /\ tx = NoTx
    /\ pre = [tags |-> {}, entry_tags |-> {}]
    /\ proc = [p \in Procs |-> Idle]
    /\ clusters = SweepSeedClusters
    /\ cluster_entries =
          {[cluster_id |-> c.id, entry_id |-> c.user_id, copy |-> 1] :
              c \in SweepSeedClusters}
    /\ ctx = NoCtx

NextRefs ==
    \/ MergeBegin(1) /\ proc'[1].userID = 1 /\ Len(proc'[1].ids) <= 2
    \/ MergeReassign(1)
    \/ MergeDelete(1)
    \/ MergeCommit(1)
    \/ CallAddEntriesToCluster(2)
    \/ AddEntriesToClusterExec(2)
    \/ AddEntriesToClusterFault(2)
    \/ AddEntriesToClusterCommit(2)
    \/ CallAddEntryToCluster(2)
    \/ CallRemoveCluster(1)
    \/ CallRemoveExpiredClusters(1)
    \/ \E p \in Procs :
        \/ CallAddTagToEntry(p) /\ proc'[p].source = TagSourceAuto
        \/ CallAddTagToEntryByName(p) /\ proc'[p].source = TagSourceAuto
        \/ GetOrCreateTagCreate(p)
        \/ AddTagToEntryCheck(p)
        \/ AddTagToEntryUpsert(p)
        \/ CallRemoveTag(p)

SpecRefs == InitRefs /\ [][NextRefs]_vars

-----------------------------------------------------------------------------
(* Properties of MergeTags, checked under SpecMerge *)

RowsOf(ets, entryID, tagID) ==
    {r \in ets : r.entry_id = entryID /\ r.tag_id = tagID}

MergeDone(p) == proc[p].op = "MergeTags" /\ proc[p].pc = "done"

\* C1: when MergeTags returns an error (a failing statement, at whatever
\* iteration, a failing Begin or Commit), the committed tags and entry_tags
\* are exactly those of before the call.
MergeFailureChangesNothing ==
    \A p \in Procs :
        MergeDone(p) /\ proc[p].res # "ok"
            => tags = pre.tags /\ entry_tags = pre.entry_tags

\* C1 witness: a merge failed on its second iteration, after the first had
\* reassigned an association and deleted its source tag inside the transaction.
MergeFailedMidway ==
    \E p \in Procs :
        /\ MergeDone(p) /\ proc[p].res # "ok"
        /\ Len(proc[p].ids) = 2 /\ proc[p].i = 2
        /\ proc[p].ids[1] # proc[p].tagID
        /\ \E r \in pre.entry_tags : r.tag_id = proc[p].ids[1]
        /\ \E t \in pre.tags : t.id = proc[p].ids[1] /\ t.user_id = proc[p].userID

\* C2: while a MergeTags transaction is open, every read (GetEntryTags, Tags,
\* TagsWithCount, TagByID, each one statement on the committed relations)
\* returns what it returned before the merge began; the post-merge state
\* appears in one step, at Commit.
ReadersSeePreMergeState ==
    tx.active =>
        /\ \A u \in Users, e \in EntryArgs :
              GetEntryTags(tags, entry_tags, u, e)
                  = GetEntryTags(pre.tags, pre.entry_tags, u, e)
        /\ \A u \in Users :
              /\ Tags(tags, u) = Tags(pre.tags, u)
              /\ TagsWithCount(tags, entry_tags, u)
                    = TagsWithCount(pre.tags, pre.entry_tags, u)
        /\ \A u \in Users, t \in TagArgs :
              TagByID(tags, u, t) = TagByID(pre.tags, u, t)

\* C2 witness: the transaction is open and has already reassigned an
\* association and deleted a source tag in its private copy.
MergeHalfDoneInTx ==
    /\ tx.active
    /\ tx.tags # pre.tags
    /\ \E r \in tx.entry_tags : r \notin pre.entry_tags
    /\ \E p \in Procs : proc[p].pc = "merge_loop" /\ proc[p].i <= Len(proc[p].ids)

\* The source tags of the call other than the target.
MergedSources(p) == {proc[p].ids[k] : k \in 1..Len(proc[p].ids)} \ {proc[p].tagID}

OwnsAll(p) ==
    \A id \in MergedSources(p) \cup {proc[p].tagID} :
        \E t \in pre.tags : t.id = id /\ t.user_id = proc[p].userID

\* C3: after a successful merge whose target and sources all belong to the
\* caller, every entry that had a source tag has exactly one association with
\* the target, and the source tags and every association to them are gone.
MergeReassignsAndDeletes ==
    \A p \in Procs :
        MergeDone(p) /\ proc[p].res = "ok" /\ OwnsAll(p) =>
            /\ \A r \in pre.entry_tags :
                  r.tag_id \in MergedSources(p) =>
                      Cardinality({x \in entry_tags : x.entry_id = r.entry_id
                                      /\ x.tag_id = proc[p].tagID}) = 1
            /\ \A t \in tags : t.id \notin MergedSources(p)
            /\ \A x \in entry_tags : x.tag_id \notin MergedSources(p)

\* C3 witness: an entry tagged with both sources of a two-source merge, and
\* not with the target, ends up tagged with the target.
MergedTwoTagsOfOneEntry ==
    \E p \in Procs :
        /\ MergeDone(p) /\ proc[p].res = "ok" /\ OwnsAll(p)
        /\ Cardinality(MergedSources(p)) = 2
        /\ \E e \in EntryIDs :
              /\ \A s \in MergedSources(p) :
                    \E r \in pre.entry_tags : r.entry_id = e /\ r.tag_id = s
              /\ ~\E r \in pre.entry_tags : r.entry_id = e /\ r.tag_id = proc[p].tagID
              /\ \E x \in entry_tags : x.entry_id = e /\ x.tag_id = proc[p].tagID

\* C17: after a successful merge every association that pointed at the target
\* before the call is still there, alone for its pair and with its source and
\* created_at, whatever the source tags' associations of that entry were.
MergeKeepsTargetRows ==
    \A p \in Procs :
        MergeDone(p) /\ proc[p].res = "ok" =>
            \A r \in pre.entry_tags :
                r.tag_id = proc[p].tagID
                => RowsOf(entry_tags, r.entry_id, proc[p].tagID) = {r}

\* C17 witness: the entry had the target and a merged source tag, with
\* different sources.
MergedOverExistingTargetRow ==
    \E p \in Procs :
        /\ MergeDone(p) /\ proc[p].res = "ok"
        /\ \E r \in pre.entry_tags, x \in pre.entry_tags :
              /\ r.tag_id = proc[p].tagID
              /\ x.entry_id = r.entry_id
              /\ x.tag_id \in MergedSources(p)
              /\ x.source # r.source
              /\ x.tag_id \notin TagIDsOf(tags)

\* The positions in sourceTagIDs, other than the target's, of the tags the
\* entry had before the call.
AttachedSourcesAt(p, e) ==
    {k \in 1..Len(proc[p].ids) :
        /\ proc[p].ids[k] # proc[p].tagID
        /\ RowsOf(pre.entry_tags, e, proc[p].ids[k]) # {}}

FirstOf(S) == CHOOSE k \in S : \A j \in S : k <= j

\* C18: after a successful merge, an entry that had no association with the
\* target and had one or more of the source tags has exactly one association
\* with the target, and it carries the source and created_at of the entry's
\* association with the first of those tags in the order of sourceTagIDs.
MergeCarriesFirstSourceRow ==
    \A p \in Procs :
        MergeDone(p) /\ proc[p].res = "ok" =>
            \A e \in EntryIDs :
                (/\ RowsOf(pre.entry_tags, e, proc[p].tagID) = {}
                 /\ AttachedSourcesAt(p, e) # {})
                => \E r \in pre.entry_tags :
                      /\ r.entry_id = e
                      /\ r.tag_id = proc[p].ids[FirstOf(AttachedSourcesAt(p, e))]
                      /\ RowsOf(entry_tags, e, proc[p].tagID)
                            = {[r EXCEPT !.tag_id = proc[p].tagID]}

\* C18 witness: the entry had both source tags, attached later the one that
\* comes first in the list, with different sources, and not the target.
MergedFirstListedOfTwo ==
    \E p \in Procs, e \in EntryIDs :
        /\ MergeDone(p) /\ proc[p].res = "ok"
        /\ RowsOf(pre.entry_tags, e, proc[p].tagID) = {}
        /\ AttachedSourcesAt(p, e) = {1, 2}
        /\ proc[p].ids[1] > proc[p].ids[2]
        /\ SourceOf(pre.entry_tags, e, proc[p].ids[1])
              # SourceOf(pre.entry_tags, e, proc[p].ids[2])

\* C19: once a merge whose list names the target has returned, the target tag
\* and every association that pointed at it before the call are still there;
\* and a merge whose list names nothing but the target leaves tags and
\* entry_tags as they were.
MergeSkipsTarget ==
    \A p \in Procs :
        (MergeDone(p) /\ \E k \in 1..Len(proc[p].ids) : proc[p].ids[k] = proc[p].tagID)
        => /\ \A t \in pre.tags : t.id = proc[p].tagID => t \in tags
           /\ \A r \in pre.entry_tags : r.tag_id = proc[p].tagID => r \in entry_tags
           /\ MergedSources(p) = {} => (tags = pre.tags /\ entry_tags = pre.entry_tags)

\* C19 witness: a successful merge of the caller's own tag into itself, the
\* tag having an association.
MergedTagIntoItself ==
    \E p \in Procs :
        /\ MergeDone(p) /\ proc[p].res = "ok"
        /\ MergedSources(p) = {}
        /\ \E t \in pre.tags : t.id = proc[p].tagID /\ t.user_id = proc[p].userID
        /\ \E r \in pre.entry_tags : r.tag_id = proc[p].tagID

\* C4 (I2): every entry_tags row joins an entry and a tag of the same owner.
EntryTagOwnersAgree ==
    \A r \in entry_tags :
        \E t \in tags : t.id = r.tag_id /\ t.user_id = EntryOwner(r.entry_id)

-----------------------------------------------------------------------------
(* Properties of the tag store, checked under SpecNames *)

SameFoldedName(a, b) == Lower(a) = Lower(b)

\* C5 (I1): no user has two tags whose names are equal up to case.
NoTwoTagsWithSameFoldedName ==
    \A t1 \in tags, t2 \in tags :
        t1.id # t2.id /\ t1.user_id = t2.user_id => ~SameFoldedName(t1.name, t2.name)

\* C5 witness: two createTag requests for case variants of one name both
\* passed the validator's existence check; one stored its tag, the other's
\* INSERT was refused.
TwoCreatesPassedValidation ==
    \E p \in Procs, q \in Procs :
        /\ p # q
        /\ proc[p].op = "createTag" /\ proc[q].op = "createTag"
        /\ proc[p].userID = proc[q].userID
        /\ proc[p].name # proc[q].name
        /\ proc[p].res = "201" /\ proc[q].res = "500"

\* Both callers called the store operation op for the same user with names
\* equal up to case, and each reached the INSERT (p's before q's).
BothInserted(op, p, q) ==
    /\ proc[p].op = op /\ proc[q].op = op
    /\ proc[p].pc = "done" /\ proc[q].pc = "done"
    /\ proc[p].userID = proc[q].userID
    /\ SameFoldedName(proc[p].name, proc[q].name)
    /\ proc[p].seq # 0 /\ proc[p].seq < proc[q].seq

TagsNamed(userID, name) ==
    {t \in tags : t.user_id = userID /\ SameFoldedName(t.name, name)}

\* C6 (P1): of two CreateTag calls of one user with case-variant-equal names,
\* on a store where the user had no such tag, the first succeeds and the second
\* fails with the duplicate error; one tag of that name exists afterwards.
SecondCreateIsDuplicate ==
    \A p \in Procs, q \in Procs :
        /\ BothInserted("CreateTag", p, q)
        /\ ~TagNameExists(NameSeedTags, proc[p].userID, proc[p].name)
        => /\ proc[p].res = "ok"
           /\ proc[q].res = "duplicate"
           /\ TagsNamed(proc[p].userID, proc[p].name) = {proc[p].tag}

\* C6 witness: the two names differ in case only.
CreatedCaseVariants ==
    \E p \in Procs, q \in Procs :
        /\ BothInserted("CreateTag", p, q)
        /\ ~TagNameExists(NameSeedTags, proc[p].userID, proc[p].name)
        /\ proc[p].name # proc[q].name

\* C7: when two GetOrCreateTag calls for the same absent name both find no
\* tag and both go on to create it, one tag is created, the later INSERT ends
\* with the duplicate error, and TagByName then returns the tag the first created.
RacingGetOrCreateMakesOneTag ==
    \A p \in Procs, q \in Procs :
        /\ BothInserted("GetOrCreateTag", p, q)
        /\ proc[p].name = proc[q].name
        => /\ proc[p].res = "ok"
           /\ proc[q].res = "duplicate"
           /\ proc[q].tag = NoTag
           /\ TagsNamed(proc[p].userID, proc[p].name) = {proc[p].tag}
           /\ TagByName(tags, proc[q].userID, proc[q].name) = proc[p].tag

\* C7 witness: both calls looked the name up before either created it.
GetOrCreateRaced ==
    \E p \in Procs, q \in Procs :
        /\ BothInserted("GetOrCreateTag", p, q)
        /\ proc[p].name = proc[q].name

-----------------------------------------------------------------------------
(* Properties of the entry-tag associations, checked under SpecAttach *)

AttachedOk(p) ==
    proc[p].op = "AddTagToEntry" /\ proc[p].pc = "done" /\ proc[p].res = "ok"

\* The source an attach call asks for: manual when it names none.
AskedSource(p) == IF proc[p].source = "" THEN "manual" ELSE proc[p].source

\* C8 (I3): no (entry, tag) pair ever has two entry_tags rows; and once two
\* attaches of the same pair have both returned, the pair has exactly one
\* row, whose source is the one either call passed.
OneRowPerPair ==
    /\ \A e \in EntryArgs, t \in TagArgs :
          Cardinality(RowsOf(entry_tags, e, t)) <= 1
    /\ \A p \in Procs, q \in Procs :
          /\ p # q /\ AttachedOk(p) /\ AttachedOk(q)
          /\ proc[p].entryID = proc[q].entryID /\ proc[p].tagID = proc[q].tagID
          => \E r \in entry_tags :
                /\ RowsOf(entry_tags, proc[p].entryID, proc[p].tagID) = {r}
                /\ r.source \in {AskedSource(p), AskedSource(q)}

\* C8 witness: two attaches of one pair with different sources, the second
\* having passed its ownership checks before the first wrote its row.
TwoAttachesRaced ==
    \E p \in Procs, q \in Procs :
        /\ p # q /\ AttachedOk(p) /\ AttachedOk(q)
        /\ proc[p].entryID = proc[q].entryID /\ proc[p].tagID = proc[q].tagID
        /\ AskedSource(p) # AskedSource(q)
        /\ proc[q].raced

\* C9 (P3): the step in which AddTagToEntry's upsert succeeds leaves exactly
\* one row for the pair, with the source the call asked for (manual by
\* default), whatever the pair's source was before.
AttachSetsSource ==
    [][\A p \in Procs :
          proc[p].pc = "attach_upsert" /\ AttachedOk(p)'
          => \E r \in entry_tags' :
                /\ RowsOf(entry_tags', proc[p].entryID, proc[p].tagID) = {r}
                /\ r.source = AskedSource(p)]_vars

\* C9 witness: an attach with auto succeeded on a pair that was manual.
AttachedAutoOverManual ==
    \E p \in Procs :
        AttachedOk(p) /\ proc[p].source = "auto" /\ proc[p].before = "manual"

\* C10: no step turns the source of an association from manual to auto
\* while the association stays.
ManualNeverDemoted ==
    [][\A r \in entry_tags : r.source = TagSourceManual
          => \A x \in RowsOf(entry_tags', r.entry_id, r.tag_id) :
                x.source = TagSourceManual]_vars

\* The step in which caller p enters AddTagToEntry with its arguments.
AttachCalled(p) ==
    proc[p].pc = "idle" /\ proc'[p].op = "AddTagToEntry"

\* C11: an AddTagToEntry call whose entry is not the caller's, or whose tag is
\* absent or another user's, ends at once with the not-found error and leaves
\* entry_tags as it was; a call whose tag has gone by the time of its upsert
\* fails too and writes nothing.
AttachRejectsForeign ==
    [][\A p \in Procs :
          /\ (/\ AttachCalled(p)
              /\ \/ ~EntryBelongsTo(proc'[p].entryID, proc'[p].userID)
                 \/ ~\E t \in tags : /\ t.id = proc'[p].tagID
                                     /\ t.user_id = proc'[p].userID)
             => (/\ proc'[p].pc = "done"
                 /\ proc'[p].res = "not_found"
                 /\ entry_tags' = entry_tags)
          /\ (/\ proc[p].op = "AddTagToEntry"
              /\ proc[p].pc = "attach_upsert"
              /\ proc'[p].pc = "done"
              /\ ~\E t \in tags : t.id = proc[p].tagID)
             => (/\ proc'[p].res # "ok"
                 /\ entry_tags' = entry_tags)]_vars

\* C11 witness: a user attached another user's existing tag to an entry of
\* their own and was refused.
AttachOfForeignTagRefused ==
    \E p \in Procs :
        /\ proc[p].op = "AddTagToEntry" /\ proc[p].pc = "done"
        /\ proc[p].res = "not_found"
        /\ EntryBelongsTo(proc[p].entryID, proc[p].userID)
        /\ \E t \in tags : t.id = proc[p].tagID /\ t.user_id # proc[p].userID

-----------------------------------------------------------------------------
(* Properties of the list operations, checked under SpecBatch *)

BatchFailed(p) ==
    /\ proc[p].op \in {"AddTagsToEntry", "AddTagsToEntryByName"}
    /\ proc[p].pc = "done"
    /\ proc[p].res # "ok"

\* The tags of the items before the one in hand (index i).
EarlierTagIDs(p) ==
    LET c == proc[p] IN
    IF c.op = "AddTagsToEntry"
    THEN {c.ids[k] : k \in 1..(c.i - 1)}
    ELSE {TagByName(tags, c.userID, c.names[k]).id : k \in 1..(c.i - 1)}

\* C12: when AddTagsToEntry or AddTagsToEntryByName has returned an error, met
\* at item i, every earlier item's tag is associated with the entry with the
\* requested source, every other entry_tags row is as it was before the call
\* (nothing was attached for a later item), no tag was lost, the tags of the
\* earlier names exist, and no tag was created for a later name.
AttachManyStopsAtFirstError ==
    \A p \in Procs : BatchFailed(p) =>
        LET c == proc[p]
            earlier == EarlierTagIDs(p)
        IN
        /\ NoTag.id \notin earlier
        /\ \A t \in earlier :
              \E r \in entry_tags :
                 /\ RowsOf(entry_tags, c.entryID, t) = {r}
                 /\ r.source = AskedSource(p)
        /\ \A r \in entry_tags \cup pre.entry_tags :
              ~(r.entry_id = c.entryID /\ r.tag_id \in earlier)
              => (r \in entry_tags /\ r \in pre.entry_tags)
        /\ pre.tags \subseteq tags
        /\ \A t \in tags \ pre.tags :
              /\ t.user_id = c.userID
              /\ \E k \in 1..c.i : SameFoldedName(t.name, c.names[k])

\* C12 witness: AddTagsToEntry failed at its second tag, another user's,
\* after it had attached the first, which the entry did not have.
AttachManyFailedAtSecond ==
    \E p \in Procs :
        /\ BatchFailed(p)
        /\ proc[p].op = "AddTagsToEntry"
        /\ proc[p].i = 2 /\ proc[p].res = "not_found"
        /\ RowsOf(pre.entry_tags, proc[p].entryID, proc[p].ids[1]) = {}
        /\ RowsOf(entry_tags, proc[p].entryID, proc[p].ids[1]) # {}

-----------------------------------------------------------------------------
(* Properties of detach, confirm and dismiss, checked under SpecAttach *)

\* The step in which caller p runs the single-step operation op.
Ran(p, op) ==
    proc[p].pc = "idle" /\ proc'[p].op = op /\ proc'[p].pc = "done"

\* C13: RemoveTagFromEntry on an entry of the caller succeeds whether or not
\* the association exists, removes the rows of that pair and no other, so
\* that it changes nothing when the pair has none; the state it leaves is one
\* in which the same call changes nothing again.
DetachIsIdempotent ==
    [][\A p \in Procs :
          (/\ Ran(p, "RemoveTagFromEntry")
           /\ EntryBelongsTo(proc'[p].entryID, proc'[p].userID))
          => LET mine == RowsOf(entry_tags, proc'[p].entryID, proc'[p].tagID) IN
             /\ proc'[p].res = "ok"
             /\ entry_tags' = entry_tags \ mine
             /\ (mine = {} => entry_tags' = entry_tags)
             /\ RowsOf(entry_tags', proc'[p].entryID, proc'[p].tagID) = {}]_vars

\* C13 witness: a second detach of a pair, run after the first had removed
\* the association, found none and succeeded.
DetachedTwice ==
    \E p \in Procs, q \in Procs :
        /\ p # q
        /\ proc[p].op = "RemoveTagFromEntry" /\ proc[q].op = "RemoveTagFromEntry"
        /\ proc[p].pc = "done" /\ proc[q].pc = "done"
        /\ proc[p].entryID = proc[q].entryID /\ proc[p].tagID = proc[q].tagID
        /\ proc[p].userID = proc[q].userID
        /\ proc[p].res = "ok" /\ proc[q].res = "ok"
        /\ proc[p].before # "none" /\ proc[q].before = "none"

\* C14: ConfirmAutoTag on an entry of the caller succeeds, turns the source
\* of the pair's association to manual and leaves every other row and field
\* as it was, making no row when the pair has none; on an entry that is not
\* the caller's it fails and changes nothing.
ConfirmOnlySetsManual ==
    [][\A p \in Procs : Ran(p, "ConfirmAutoTag") =>
          LET c == proc'[p]
              mine == RowsOf(entry_tags, c.entryID, c.tagID)
          IN
          IF EntryBelongsTo(c.entryID, c.userID)
          THEN /\ c.res = "ok"
               /\ entry_tags' = (entry_tags \ mine) \cup
                                    {[r EXCEPT !.source = TagSourceManual] : r \in mine}
               /\ (mine = {} => entry_tags' = entry_tags)
          ELSE /\ c.res # "ok"
               /\ entry_tags' = entry_tags]_vars

\* C14 witness: an auto association was confirmed.
ConfirmedAnAutoTag ==
    \E p \in Procs :
        /\ proc[p].op = "ConfirmAutoTag" /\ proc[p].pc = "done"
        /\ proc[p].res = "ok" /\ proc[p].before = TagSourceAuto

\* C15: RemoveAutoTagsFromEntry removes the rows of the entry whose source is
\* auto and whose tag is the caller's, and no other row: manual rows, rows
\* of other entries and rows whose tag is another user's all stay as they are.
DismissRemovesOnlyOwnAuto ==
    [][\A p \in Procs : Ran(p, "RemoveAutoTagsFromEntry") =>
          LET c == proc'[p] IN
          /\ c.res = "ok"
          /\ entry_tags' \subseteq entry_tags
          /\ \A r \in entry_tags :
                r \notin entry_tags'
                <=> /\ r.entry_id = c.entryID
                    /\ r.source = TagSourceAuto
                    /\ \E t \in tags : t.id = r.tag_id /\ t.user_id = c.userID]_vars

\* C15 witness: one call removed an auto row, and another call, by a user
\* who does not own the tag of an auto row of its entry, left that row.
DismissedOwnAndKeptForeign ==
    \E p \in Procs, q \in Procs :
        /\ p # q
        /\ proc[p].op = "RemoveAutoTagsFromEntry" /\ proc[p].pc = "done"
        /\ proc[q].op = "RemoveAutoTagsFromEntry" /\ proc[q].pc = "done"
        /\ proc[p].before = TagSourceAuto
        /\ \E r \in entry_tags :
              /\ r.entry_id = proc[q].entryID /\ r.source = TagSourceAuto
              /\ \E t \in tags : t.id = r.tag_id /\ t.user_id # proc[q].userID

\* C16: RemoveTag of a tag of the caller succeeds and removes that tag and
\* the entry_tags rows that reference it and nothing else; of a tag that is
\* absent or another user's it fails with the not-found error and leaves tags
\* and entry_tags as they were.
RemoveTagRemovesTagAndRows ==
    [][\A p \in Procs : Ran(p, "RemoveTag") =>
          LET c == proc'[p]
              mine == {t \in tags : t.id = c.tagID /\ t.user_id = c.userID}
          IN
          IF mine # {}
          THEN /\ c.res = "ok"
               /\ tags' = tags \ mine
               /\ entry_tags' = {r \in entry_tags : r.tag_id # c.tagID}
          ELSE /\ c.res = "not_found"
               /\ tags' = tags
               /\ entry_tags' = entry_tags]_vars

\* C16 witness: a tag that had an association was removed, and with it the
\* association, while an association of another tag stayed.
RemovedTagInUse ==
    \E p \in Procs :
        /\ proc[p].op = "RemoveTag" /\ proc[p].pc = "done" /\ proc[p].res = "ok"
        /\ proc[p].tag # NoTag
        /\ proc[p].tagID \notin TagIDsOf(tags)
        /\ proc[3 - p].op = "AddTagToEntry" /\ proc[3 - p].pc = "done"
        /\ proc[3 - p].res = "ok" /\ proc[3 - p].tagID = proc[p].tagID
        /\ RowsOf(entry_tags, proc[3 - p].entryID, proc[p].tagID) = {}
        /\ entry_tags # {}

-----------------------------------------------------------------------------
(* Properties of cluster membership, checked under SpecCluster *)

\* Caller p returns from an add in this step.
AddReturns(p) ==
    /\ proc[p].pc # "done" /\ proc'[p].pc = "done"
    /\ proc'[p].op \in {"AddEntryToCluster", "AddEntriesToCluster"}

\* The entries an add call names.
AddedEntries(c) ==
    IF c.op = "AddEntryToCluster" THEN {c.entryID}
    ELSE {c.ids[k] : k \in 1..Len(c.ids)}

\* C20 (P5, I4): no (cluster, entry) pair ever has two cluster_entries rows;
\* every AddEntryToCluster or AddEntriesToCluster naming an existing cluster
\* and existing entries, calls not overlapping, returns success and leaves
\* each named pair with exactly one row; and when the pairs it names were all
\* members already, the table and the cluster's entry count stay as they were.
AddIsIdempotent ==
    [][/\ \A cid \in ClusterArgs, e \in EntryArgs :
            Cardinality(MembershipRows(cluster_entries', cid, e)) <= 1
       /\ \A p \in Procs :
            LET c == proc'[p] IN
            (/\ AddReturns(p)
             /\ c.clusterID \in ClusterIDsOf(clusters)
             /\ AddedEntries(c) \subseteq EntryIDs)
            => /\ c.res = "ok"
               /\ \A e \in AddedEntries(c) :
                     Cardinality(MembershipRows(cluster_entries', c.clusterID, e)) = 1
               /\ (\A e \in AddedEntries(c) :
                      MembershipRows(cluster_entries, c.clusterID, e) # {})
                  => /\ cluster_entries' = cluster_entries
                     /\ EntryCount(cluster_entries', c.clusterID)
                           = EntryCount(cluster_entries, c.clusterID)]_vars

\* C20 witness: one pair added three times, once by AddEntryToCluster and
\* twice by one AddEntriesToCluster, has one row.
AddedSamePairThrice ==
    \E p \in Procs, q \in Procs :
        /\ proc[p].op = "AddEntryToCluster" /\ proc[p].pc = "done"
        /\ proc[p].res = "ok"
        /\ proc[q].op = "AddEntriesToCluster" /\ proc[q].pc = "done"
        /\ proc[q].res = "ok"
        /\ proc[q].clusterID = proc[p].clusterID
        /\ proc[q].ids = <<proc[p].entryID, proc[p].entryID>>
        /\ Cardinality(MembershipRows(cluster_entries, proc[p].clusterID,
                                      proc[p].entryID)) = 1
        /\ EntryCount(cluster_entries, proc[p].clusterID) = 1

\* Caller p is inside AddEntriesToCluster, between Begin and Commit.
InAddMany(p) ==
    proc[p].op = "AddEntriesToCluster" /\ proc[p].pc = "addmany_loop"

\* C21: AddEntriesToCluster is all-or-nothing. No step it takes before its
\* Commit changes the committed cluster_entries, so that no reader sees
\* some of its new rows without the others; the step in which it returns an
\* error leaves the table without any row of the call; and its Commit adds
\* all the rows of the call at once. (The entries of the call are read as
\* the memberships the call makes, not those that existed before it.)
AddManyIsAtomic ==
    [][/\ (ctx.active' => ctx.ins' \cap cluster_entries' = {})
       /\ \A p \in Procs : InAddMany(p) /\ proc'[p] # proc[p] =>
             /\ proc'[p].pc = "addmany_loop"
                => cluster_entries' = cluster_entries
             /\ (proc'[p].pc = "done" /\ proc'[p].res # "ok")
                => (cluster_entries' = cluster_entries /\ ~ctx.active')
             /\ (proc'[p].pc = "done" /\ proc'[p].res = "ok")
                => cluster_entries' = cluster_entries \cup ctx.ins]_vars

\* C21 witness: an AddEntriesToCluster failed at its second entry after its
\* first INSERT had made a row in the transaction, and that entry is no
\* member of the cluster.
AddManyFailedAfterFirstInsert ==
    \E p \in Procs :
        /\ proc[p].op = "AddEntriesToCluster" /\ proc[p].pc = "done"
        /\ proc[p].res = "fault" /\ proc[p].i = 2
        /\ Len(proc[p].ids) = 2
        /\ proc[p].clusterID \in ClusterIDsOf(clusters)
        /\ MembershipRows(cluster_entries, proc[p].clusterID, proc[p].ids[1]) = {}
        /\ proc[p].ids[1] # proc[p].ids[2]
        /\ \A q \in Procs \ {p} : proc[q].pc = "idle"

-----------------------------------------------------------------------------
(* Properties of cluster expiry, checked under SpecSweep *)

\* C24 (I5): the entry count that Clusters reports for a cluster and the one
\* that GetClusterWithEntries reports for it are both the number of the
\* cluster's cluster_entries rows.
EntryCountsAgree ==
    \A c \in clusters :
        /\ GetClusterWithEntries(clusters, cluster_entries, c.user_id, c.id).entry_count
              = EntryCount(cluster_entries, c.id)
        /\ \A l \in Clusters(clusters, cluster_entries, c.user_id, now) :
              l.id = c.id => l.entry_count = EntryCount(cluster_entries, c.id)

\* C22 (P6): at every time, Clusters and GetEntryClusters return a cluster
\* only if its expires_at is null or later than now, while ClusterByID returns
\* every cluster still in the table, those past their expires_at included.
ListsHideExpiredClusters ==
    /\ \A u \in Users :
          \A c \in Clusters(clusters, cluster_entries, u, now) :
              c.expires_at = Null \/ c.expires_at > now
    /\ \A u \in Users, e \in EntryIDs :
          \A c \in GetEntryClusters(clusters, cluster_entries, u, e, now) :
              c.expires_at = Null \/ c.expires_at > now
    /\ \A c \in clusters : ClusterByID(clusters, c.user_id, c.id) = c

\* C22 witness: a cluster that has an entry is past its expires_at, is in
\* neither list of its owner, and is returned by ClusterByID.
ExpiredClusterStillFetched ==
    \E c \in clusters, e \in EntryIDs :
        /\ c.expires_at # Null /\ c.expires_at < now
        /\ MembershipRows(cluster_entries, c.id, e) # {}
        /\ c.id \notin ClusterIDsOf(Clusters(clusters, cluster_entries, c.user_id, now))
        /\ c \notin GetEntryClusters(clusters, cluster_entries, c.user_id, e, now)
        /\ ClusterByID(clusters, c.user_id, c.id) = c

\* The step in which caller p runs RemoveExpiredClusters.
Swept(p) ==
    proc[p].pc = "idle" /\ proc'[p].op = "RemoveExpiredClusters"
       /\ proc'[p].pc = "done"

\* The clusters of cs, of whatever owner, whose expires_at is set and earlier
\* than t.
PastExpiry(cs, t) == {c \in cs : c.expires_at # Null /\ c.expires_at < t}

\* C23 (P7): RemoveExpiredClusters removes the clusters, of every owner,
\* whose expires_at is set and in the past, and their cluster_entries rows,
\* leaves every other cluster and row as it was, and returns the number of
\* clusters it removed; in the state it leaves at that instant no cluster is
\* past its expiry, so that a second call removes nothing and returns 0.
SweepRemovesThePastExpiry ==
    [][\A p \in Procs : Swept(p) =>
          LET gone == PastExpiry(clusters, now) IN
          /\ clusters' = clusters \ gone
          /\ cluster_entries' =
                {r \in cluster_entries : r.cluster_id \notin ClusterIDsOf(gone)}
          /\ proc'[p].count = Cardinality(gone)
          /\ proc'[p].res = "ok"
          /\ PastExpiry(clusters', now') = {}
          /\ (gone = {} => proc'[p].count = 0 /\ clusters' = clusters
                              /\ cluster_entries' = cluster_entries)]_vars

\* C23 witness: a sweep removed two clusters of different owners, both with
\* an entry, and left the third with its entry; the other sweep, at the same
\* instant, removed nothing.
SweptTwiceAtOneInstant ==
    \E p \in Procs, q \in Procs :
        /\ p # q
        /\ proc[p].op = "RemoveExpiredClusters" /\ proc[p].pc = "done"
        /\ proc[q].op = "RemoveExpiredClusters" /\ proc[q].pc = "done"
        /\ proc[p].at = proc[q].at
        /\ proc[p].count = 2 /\ proc[q].count = 0
        /\ Cardinality(clusters) = 1
        /\ Cardinality(cluster_entries) = 1

\* C28: in the state RemoveExpiredClusters leaves at an instant, every cluster
\* is one that the listings treat as active at that instant, a cluster whose
\* expires_at equals the instant included among the removed.
SweepLeavesOnlyActive ==
    [][\A p \in Procs : Swept(p) =>
          /\ \A c \in clusters' : NotExpired(c, now')
          /\ clusters \ clusters' = {c \in clusters : ~NotExpired(c, now)}]_vars

-----------------------------------------------------------------------------
(* Properties of MergeTags with a foreign target or foreign rows, checked
   under SpecMerge *)

\* C29: a MergeTags whose targetTagID names no tag owned by userID leaves the
\* committed tags and entry_tags exactly as they were before the call,
\* whether its sources have associations or not.
MergeIntoMissingTargetChangesNothing ==
    \A p \in Procs :
        MergeDone(p) /\ TagByID(pre.tags, proc[p].userID, proc[p].tagID) = NoTag
            => tags = pre.tags /\ entry_tags = pre.entry_tags

\* The rows of ets that are not wholly userID's: the entry or the tag (looked
\* up in ts) belongs to another user.
ForeignRows(ets, ts, userID) ==
    {r \in ets : \/ EntryOwner(r.entry_id) # userID
                 \/ \E t \in ts : t.id = r.tag_id /\ t.user_id # userID}

\* C30: an operation of the tag store called with owner U leaves every tag of
\* another user, and every entry_tags row whose entry or tag is another
\* user's, as it was; stated here for MergeTags, one of the operations the
\* claim lists.
MergeTouchesOnlyOwn ==
    \A p \in Procs :
        MergeDone(p) =>
            /\ {t \in tags : t.user_id # proc[p].userID}
                  = {t \in pre.tags : t.user_id # proc[p].userID}
            /\ ForeignRows(entry_tags, pre.tags, proc[p].userID)
                  = ForeignRows(pre.entry_tags, pre.tags, proc[p].userID)

-----------------------------------------------------------------------------
(* Properties of the HTTP handlers, checked under SpecNames *)

\* C25: without a storage fault a removeTag request is answered 204 or 404
\* and nothing else; of two requests for the same tag of the same owner
\* that have both been answered, at most one was answered 204 and, when one
\* was, the other was answered 404. Checked under SpecApiRemove.
RemoveTagAnswers204Or404 ==
    /\ \A p \in Procs :
          proc[p].op = "removeTag" /\ proc[p].pc = "done"
              => proc[p].res \in {"204", "404"}
    /\ \A p \in Procs, q \in Procs :
          (/\ p # q
           /\ proc[p].op = "removeTag" /\ proc[p].pc = "done"
           /\ proc[q].op = "removeTag" /\ proc[q].pc = "done"
           /\ proc[p].userID = proc[q].userID /\ proc[p].tagID = proc[q].tagID
           /\ proc[p].res = "204")
          => proc[q].res = "404"

\* The request of p, a createTag or an updateTag that has fetched its tag,
\* carries a name that a tag of its owner already bears in ts.
NameCollides(c, ts) ==
    \/ c.op = "createTag" /\ TagNameExists(ts, c.userID, c.name)
    \/ /\ c.op = "updateTag" /\ c.tag # NoTag /\ c.name # <<>>
       /\ AnotherTagExists(ts, c.userID, c.tag.id, c.name)

\* C26: a createTag or updateTag request that ends while its name collides,
\* case-insensitively, with another tag of its owner is answered 400, the
\* answer the handlers give to "already exists", also when the colliding tag
\* was written between the validator's check and the store's write.
CollisionAnsweredAlreadyExists ==
    [][\A p \in Procs :
          (/\ proc'[p] # proc[p]
           /\ proc'[p].pc = "done"
           /\ NameCollides(proc'[p], tags))
          => proc'[p].res = "400"]_vars

-----------------------------------------------------------------------------
(* Referential integrity, checked under SpecRefs *)

\* C27: in every committed state, whatever the interleaving of attaches,
\* merges, tag and cluster removals, cluster additions and sweeps, every
\* entry_tags row references a tag that exists and every cluster_entries row
\* a cluster that exists; an attach whose ownership check passed before the
\* tag was deleted leaves no row for the deleted tag.
ReferencesExist ==
    /\ \A r \in entry_tags : r.tag_id \in TagIDsOf(tags)
    /\ \A r \in cluster_entries : r.cluster_id \in ClusterIDsOf(clusters)

\* C27 witness: a MergeTags has committed the deletion of a tag for which an
\* AddTagToEntry had passed its ownership check; the attach then failed on
\* the foreign key, and rows of both association tables remain.
AttachLostItsTagToMerge ==
    \E p \in Procs :
        /\ proc[p].op = "AddTagToEntry" /\ proc[p].pc = "done"
        /\ proc[p].res = "fk"
        /\ proc[1].op = "MergeTags" /\ proc[1].pc = "done" /\ proc[1].res = "ok"
        /\ \E k \in 1..Len(proc[1].ids) : proc[1].ids[k] = proc[p].tagID
        /\ proc[p].tagID \notin TagIDsOf(tags)
        /\ entry_tags # {}
        /\ cluster_entries # {}

====
